---- MODULE Spec2Model ----
(***************************************************************************)
(* A model of aniwrap: the Route / GenerateRoute request builder           *)
(* (models/route.py, endpoints.py), the Result container (result.py), the  *)
(* vocabulary conversion (enums/base.py) and the Serializer                *)
(* (serializer.py), with the service operations that tie them together.    *)
(*                                                                         *)
(* Strings are sequences of tokens.  The characters "(" and ")" and "-"    *)
(* are always tokens of their own; every other token is a run of text      *)
(* holding none of them, so a search for the placeholder "()" and a count  *)
(* of "-" can be done on tokens.  Python values of mixed type are records  *)
(* tagged by a field t.                                                    *)
(***************************************************************************)
EXTENDS Integers, Sequences, FiniteSets, TLC

VARIABLES
    routes,     \* endpoints.py: the module-level Route objects, name -> [method, uri]
    builders,   \* the GenerateRoute objects created so far: [route, _params, _data]
    genArgs,    \* history: genArgs[i] is the *args of the call that made builders[i]
    chain,      \* history: chain[i] is the with_params mappings given to builders[i]
    ret,        \* the builder returned by the last Route/GenerateRoute call (0: none)
    lastOp,     \* history: the last call, [op |-> its name, on |-> the builder it was made on]
    results,    \* the Result objects built so far
    resFrom,    \* history: resFrom[i] tells who built results[i], and from what
    sent,       \* the request last handed to the transport
    raised,     \* the exception that escaped the last operation (PyNone: none)
    fetched,    \* history: the last fetch, what the session gave and what fetch returned
    http,       \* the HttpService of the client: its headers, and whether its session is closed
    called,     \* history: the last operation called and its arguments
    enumCls,    \* vocabulary conversion: the enum class converted to
    enumWire,   \* vocabulary conversion: the wire value converted
    enumStrict, \* what from_str gave for it (NotCalled before the call)
    enumTry,    \* what try_from_str gave for it (NotCalled before the call)
    mEntry,     \* mapping: the Serializer entry point applied
    mPayload,   \* mapping: the payload it is applied to
    mOut        \* what the entry point gave (NotCalled before the call)

routeVars == <<routes, builders, genArgs, chain, ret, lastOp>>

resultVars == <<results, resFrom, sent, raised, fetched, http, called>>

enumVars == <<enumCls, enumWire, enumStrict, enumTry>>

mapperVars == <<mEntry, mPayload, mOut>>

vars == <<routes, builders, genArgs, chain, ret, lastOp, results, resFrom, sent, raised,
          fetched, http, called, enumCls, enumWire, enumStrict, enumTry, mEntry, mPayload, mOut>>

(***************************************************************************)
(* Bounds of the model.                                                    *)
(***************************************************************************)
MaxBuilders == 2

MaxChain == 2

MaxResults == 2

(***************************************************************************)
(* Python values.                                                          *)
(***************************************************************************)
PyNone == [t |-> "None"]

PyInt(n) == [t |-> "int", n |-> n]

PyStr(s) == [t |-> "str", s |-> s]

PyBool(b) == [t |-> "bool", b |-> b]

PyDict(d) == [t |-> "dict", d |-> d]

PyList(l) == [t |-> "list", l |-> l]

EmptyMap == [k \in {} |-> 0]

\* an exception propagating out of the expression that was evaluated
Raise(exc) == [t |-> "raise", exc |-> exc]

IsRaise(x) == x.t = "raise"

\* history: the operation was not applied yet
NotCalled == [t |-> "not called"]

\* bool(x), as `if x:` and `x or y` evaluate it
Truthy(x) ==
    CASE x.t = "None" -> FALSE
      [] x.t = "dict" -> DOMAIN x.d # {}
      [] x.t = "list" -> x.l # <<>>
      [] x.t = "str"  -> x.s # <<>>
      [] x.t = "int"  -> x.n # 0
      [] x.t = "bool" -> x.b
      [] OTHER        -> TRUE

\* the decimal digits of a natural number, most significant first
RECURSIVE Digits(_)
Digits(n) ==
    LET d == <<"0", "1", "2", "3", "4", "5", "6", "7", "8", "9">>
    IN  IF n < 10 THEN <<d[n + 1]>> ELSE Digits(n \div 10) \o <<d[(n % 10) + 1]>>

\* str(arg) for the `str | int` arguments of generate_route
Str(arg) == IF arg.t = "int" THEN Digits(arg.n) ELSE arg.s

(***************************************************************************)
(* str.replace("()", new, 1)                                               *)
(***************************************************************************)
IsPlaceholderAt(s, i) == i + 1 <= Len(s) /\ s[i] = "(" /\ s[i + 1] = ")"

PlaceholderPositions(s) == {i \in 1..Len(s) : IsPlaceholderAt(s, i)}

ReplaceFirst(s, new) ==
    IF PlaceholderPositions(s) = {} THEN s
    ELSE LET i == CHOOSE p \in PlaceholderPositions(s) :
                      \A q \in PlaceholderPositions(s) : p <= q
         IN  SubSeq(s, 1, i - 1) \o new \o SubSeq(s, i + 2, Len(s))

\* the loop of generate_route: one replace per argument, on the running uri
RECURSIVE SubstituteArgs(_, _)
SubstituteArgs(uri, args) ==
    IF args = <<>> THEN uri
    ELSE SubstituteArgs(ReplaceFirst(uri, Str(Head(args))), Tail(args))

(***************************************************************************)
(* endpoints.py                                                            *)
(***************************************************************************)
BASEURL == "https://api.myanimelist.net/v2"

ANIMEURL == <<BASEURL, "/anime">>

MANGAURL == <<BASEURL, "/manga">>

FORUMURL == <<BASEURL, "/forum">>

USERURL == <<BASEURL, "/users">>

Endpoints ==
    [ SEARCH_ANIME           |-> [method |-> "GET",    uri |-> ANIMEURL],
      GET_ANIME              |-> [method |-> "GET",    uri |-> ANIMEURL \o <<"/", "(", ")">>],
      GET_SEASONAL_ANIME     |-> [method |-> "GET",
                                  uri |-> ANIMEURL \o <<"/season/", "(", ")", "/", "(", ")">>],
      SEARCH_MANGA           |-> [method |-> "GET",    uri |-> MANGAURL],
      GET_FORUM_TOPICS       |-> [method |-> "Get",    uri |-> FORUMURL \o <<"/topics">>],
      GET_USER_ANIME_LIST    |-> [method |-> "Get",
                                  uri |-> USERURL \o <<"/", "(", ")", "/animelist">>],
      UPDATE_USER_ANIME_LIST |-> [method |-> "Patch",
                                  uri |-> ANIMEURL \o <<"/", "(", ")", "/my_list_status">>],
      DELETE_ANIME_FROM_LIST |-> [method |-> "Delete",
                                  uri |-> ANIMEURL \o <<"/", "(", ")", "/my_list_status">>],
      UPATE_USER_MANGA_LIST  |-> [method |-> "Patch",
                                  uri |-> MANGAURL \o <<"/", "(", ")", "/my_list_status">>],
      DELETE_MANGA_FROM_LIST |-> [method |-> "Delete",
                                  uri |-> MANGAURL \o <<"/", "(", ")", "/my_list_status">>] ]

RouteNames == DOMAIN Endpoints

(***************************************************************************)
(* models/route.py: GenerateRoute                                          *)
(***************************************************************************)
\* GenerateRoute.__init__: a reference to the Route and two fresh dicts
NewBuilder(r) == [route |-> r, _params |-> EmptyMap, _data |-> EmptyMap]

\* the uri property: read through the referenced Route
BuilderUri(i) == routes[builders[i].route].uri

BuilderMethod(i) == routes[builders[i].route].method

\* the uri setter: writes into the referenced Route
UriSetter(r, val) == [routes EXCEPT ![r].uri = val]

\* dict.update
DictUpdate(old, new) ==
    [k \in DOMAIN old \cup DOMAIN new |-> IF k \in DOMAIN new THEN new[k] ELSE old[k]]

\* an update that keeps the value of a key already present
DictSetDefault(old, new) ==
    [k \in DOMAIN old \cup DOMAIN new |-> IF k \in DOMAIN old THEN old[k] ELSE new[k]]

\* Route.generate_route(*args)
GenerateRoute(r, args) ==
    /\ Len(builders) < MaxBuilders
    /\ routes' = UriSetter(r, SubstituteArgs(routes[r].uri, args))
    /\ builders' = Append(builders, NewBuilder(r))
    /\ genArgs' = Append(genArgs, args)
    /\ chain' = Append(chain, <<>>)
    /\ ret' = Len(builders) + 1
    /\ lastOp' = [op |-> "generate_route", on |-> 0]

\* a with_params that never overwrites a key it already holds
BuilderWithParamsKeepingOld(b, params) ==
    IF Truthy(params) THEN [b EXCEPT !._params = DictSetDefault(b._params, params.d)] ELSE b

\* builder b after with_params(params): `if params: self.params.update(params)`
BuilderWithParams(b, params) ==
    IF Truthy(params) THEN [b EXCEPT !._params = DictUpdate(b._params, params.d)] ELSE b

\* a with_data that writes into the query parameters
BuilderWithDataIntoParams(b, data) ==
    IF Truthy(data) THEN [b EXCEPT !._params = DictUpdate(b._params, data.d)] ELSE b

\* builder b after with_data(data): `if data: self._data.update(data)`
BuilderWithData(b, data) ==
    IF Truthy(data) THEN [b EXCEPT !._data = DictUpdate(b._data, data.d)] ELSE b

\* GenerateRoute.with_params(params), which returns self
WithParams(i, params) ==
    /\ i \in 1..Len(builders)
    /\ Len(chain[i]) < MaxChain
    /\ builders' = [builders EXCEPT ![i] = BuilderWithParams(builders[i], params)]
    /\ chain' = [chain EXCEPT ![i] = Append(@, params)]
    /\ ret' = i
    /\ lastOp' = [op |-> "with_params", on |-> i]
    /\ UNCHANGED <<routes, genArgs>>

\* GenerateRoute.with_data(data), which returns self
WithData(i, data) ==
    /\ i \in 1..Len(builders)
    /\ builders' = [builders EXCEPT ![i] = BuilderWithData(builders[i], data)]
    /\ ret' = i
    /\ lastOp' = [op |-> "with_data", on |-> i]
    /\ UNCHANGED <<routes, genArgs, chain>>

(***************************************************************************)
(* result.py: Result, Success, Error.  An object is its class and the      *)
(* slots its __init__ assigned; reading a slot never assigned raises.      *)
(***************************************************************************)
\* Success.__init__(value): assigns _value only
Success(v) == [t |-> "Success", slots |-> [_value |-> v]]

\* Error.__init__(error): assigns _error only
Error(e) == [t |-> "Error", slots |-> [_error |-> e]]

ReadSlot(r, name) ==
    IF name \in DOMAIN r.slots THEN r.slots[name] ELSE Raise("AttributeError")

is_success(r) == r.t = "Success"

is_error(r) == r.t = "Error"

\* a value property that reads the slot on both classes
ValueFromSlot(r) == ReadSlot(r, "_value")

\* Success.value returns self._value, Error.value returns None
value(r) == IF r.t = "Success" THEN ReadSlot(r, "_value") ELSE PyNone

\* an error property that answers None on both classes
ErrorAlwaysNone(r) == PyNone

\* Error.error returns self._error, Success.error returns None
error(r) == IF r.t = "Error" THEN ReadSlot(r, "_error") ELSE PyNone

(***************************************************************************)
(* models/http.py                                                          *)
(***************************************************************************)
HttpSuccessResponse(status, message, data) ==
    [t |-> "HttpSuccessResponse", status |-> status, message |-> message, data |-> data]

HttpErrorResponse(status, message) ==
    [t |-> "HttpErrorResponse", status |-> status, message |-> message]

(***************************************************************************)
(* enums: the members of every enum class with their wire values, and      *)
(* enums/base.py: BaseEnum.from_str and BaseEnum.try_from_str.             *)
(***************************************************************************)
\* enums/anime.py
AnimeEnums ==
    [
      AnimeStatus |-> [ Airing |-> PyStr(<<"currently_airing">>),
                       Finished |-> PyStr(<<"finished_airing">>),
                       NotAired |-> PyStr(<<"not_yet_aired">>) ],
      AnimeType |-> [ Movie |-> PyStr(<<"movie">>),
                     Ona |-> PyStr(<<"ona">>),
                     Ova |-> PyStr(<<"ova">>),
                     Special |-> PyStr(<<"special">>),
                     Tv |-> PyStr(<<"tv">>),
                     Unknown |-> PyStr(<<"unknown">>) ],
      AnimeSeason |-> [ Winter |-> PyStr(<<"winter">>),
                       Spring |-> PyStr(<<"spring">>),
                       Summer |-> PyStr(<<"summer">>),
                       Fall |-> PyStr(<<"fall">>) ],
      AnimeRankingType |-> [ All |-> PyStr(<<"all">>),
                            Airing |-> PyStr(<<"airing">>),
                            Upcoming |-> PyStr(<<"upcoming">>),
                            Tv |-> PyStr(<<"tv">>),
                            Ova |-> PyStr(<<"ova">>),
                            Movie |-> PyStr(<<"movie">>),
                            Special |-> PyStr(<<"special">>),
                            ByPopularity |-> PyStr(<<"bypopularity">>),
                            Favorite |-> PyStr(<<"favorite">>) ],
      AnimeSortType |-> [ AnimeScore |-> PyStr(<<"anime_score">>),
                         NumberOfUsers |-> PyStr(<<"anime_num_list_users">>) ] ]

\* enums/manga.py
MangaEnums ==
    [
      MangaRankingType |-> [ All |-> PyStr(<<"all">>),
                            Manga |-> PyStr(<<"manga">>),
                            Novels |-> PyStr(<<"novels">>),
                            Oneshots |-> PyStr(<<"oneshots">>),
                            Doujin |-> PyStr(<<"doujin">>),
                            Manhwa |-> PyStr(<<"manhwa">>),
                            Manhua |-> PyStr(<<"manhua">>),
                            ByPopularity |-> PyStr(<<"bypopularity">>),
                            Favorite |-> PyStr(<<"favorite">>) ],
      MangaType |-> [ Doujinshi |-> PyStr(<<"doujinshi">>),
                     LightNovel |-> PyStr(<<"light_novel">>),
                     Manga |-> PyStr(<<"manga">>),
                     Manhua |-> PyStr(<<"manhua">>),
                     Manhwa |-> PyStr(<<"manhwa">>),
                     Novel |-> PyStr(<<"novel">>),
                     Oel |-> PyStr(<<"oel">>),
                     OneShot |-> PyStr(<<"one_shot">>),
                     Unknown |-> PyStr(<<"unknown">>) ],
      MangaStatus |-> [ Finished |-> PyStr(<<"finished">>),
                       NotPublished |-> PyStr(<<"not_yet_published">>),
                       Publishing |-> PyStr(<<"currently_publishing">>),
                       OnHiatus |-> PyStr(<<"on_hiatus">>),
                       Discontinued |-> PyStr(<<"discontinued">>) ] ]

\* enums/user.py
UserEnums ==
    [
      AnimeListSortType |-> [ ListScore |-> PyStr(<<"list_score">>),
                             ListUpdatedAt |-> PyStr(<<"list_updated_at">>),
                             AnimeTitle |-> PyStr(<<"anime_title">>),
                             AnimeStartDate |-> PyStr(<<"anime_start_date">>) ],
      AnimeWatchStatus |-> [ Watching |-> PyStr(<<"watching">>),
                            Completed |-> PyStr(<<"completed">>),
                            OnHold |-> PyStr(<<"on_hold">>),
                            Dropped |-> PyStr(<<"dropped">>),
                            PlanToWatch |-> PyStr(<<"plan_to_watch">>) ],
      ListPriority |-> [ Low |-> PyInt(0),
                        Medium |-> PyInt(1),
                        High |-> PyInt(2) ],
      AnimeRewatchValue |-> [ Empty |-> PyInt(0),
                             VeryLow |-> PyInt(1),
                             Low |-> PyInt(2),
                             Medium |-> PyInt(3),
                             High |-> PyInt(4),
                             VeryHigh |-> PyInt(5) ],
      MangaReadStatus |-> [ Reading |-> PyStr(<<"reading">>),
                           Completed |-> PyStr(<<"completed">>),
                           OnHold |-> PyStr(<<"on_hold">>),
                           Dropped |-> PyStr(<<"dropped">>),
                           PlanToRead |-> PyStr(<<"plan_to_read">>) ],
      MangaListSortType |-> [ ListScore |-> PyStr(<<"list_score">>),
                             ListUpdatedAt |-> PyStr(<<"list_updated_at">>),
                             MangaTitle |-> PyStr(<<"manga_title">>),
                             MangaStartDate |-> PyStr(<<"manga_start_date">>) ],
      MangaRereadValue |-> [ Empty |-> PyInt(0),
                            VeryLow |-> PyInt(1),
                            Low |-> PyInt(2),
                            Medium |-> PyInt(3),
                            High |-> PyInt(4),
                            VeryHigh |-> PyInt(5) ] ]

\* enums/common.py
CommonEnums ==
    [
      NSFWLevel |-> [ Black |-> PyStr(<<"black">>),
                     Gray |-> PyStr(<<"gray">>),
                     White |-> PyStr(<<"white">>) ] ]

\* enums/http.py
HttpEnums ==
    [
      HttpMethod |-> [ Get |-> PyStr(<<"GET">>),
                      Post |-> PyStr(<<"POST">>),
                      Put |-> PyStr(<<"PUT">>),
                      Patch |-> PyStr(<<"PATCH">>),
                      Delete |-> PyStr(<<"DELETE">>) ] ]

EnumMembers == AnimeEnums @@ MangaEnums @@ UserEnums @@ CommonEnums @@ HttpEnums

EnumClasses == DOMAIN EnumMembers

\* a member of an enum class
Member(cls, name) == [t |-> "enum", cls |-> cls, name |-> name]

\* Python's ==, under which True and False are the integers 1 and 0
PyEq(a, b) ==
    LET num(x) == IF x.t = "int" THEN x.n ELSE IF x.b THEN 1 ELSE 0
    IN  IF a.t \in {"int", "bool"} /\ b.t \in {"int", "bool"} THEN num(a) = num(b) ELSE a = b

\* cls(value): the member with that value, or ValueError
EnumCall(cls, v) ==
    LET hits == {n \in DOMAIN EnumMembers[cls] : PyEq(EnumMembers[cls][n], v)}
    IN  IF hits # {} THEN Member(cls, CHOOSE n \in hits : TRUE) ELSE Raise("ValueError")

\* BaseEnum.from_str
from_str(cls, v) == EnumCall(cls, v)

\* a try_from_str that lets the ValueError through
TryFromStrNoCatch(cls, v) == EnumCall(cls, v)

\* BaseEnum.try_from_str: cls(value), None on ValueError
try_from_str(cls, v) ==
    LET r == EnumCall(cls, v)
    IN  IF IsRaise(r) /\ r.exc = "ValueError" THEN PyNone ELSE r

(***************************************************************************)
(* serializer.py: Serializer.  A JSON payload is a Python value: None, an  *)
(* int, a bool, a str, a list or a dict.  A model object is its class and  *)
(* the attributes assigned so far: the classes declared with               *)
(* attrs.define(init=False) are created with no attribute assigned.        *)
(* An expression evaluates to its value or to Raise(exc).                  *)
(***************************************************************************)
EmptyDict == PyDict(EmptyMap)

EmptyList == PyList(<<>>)

Obj(cls, attrs) == [t |-> cls, a |-> attrs]

\* the first exception among the values of an evaluation, in its order
FirstRaise(vals) ==
    LET i == CHOOSE i \in 1..Len(vals) :
                 IsRaise(vals[i]) /\ \A j \in 1..(i - 1) : ~IsRaise(vals[j])
    IN  vals[i]

AnyRaise(vals) == \E i \in 1..Len(vals) : IsRaise(vals[i])

\* the attribute map that assigning pairs <<name, value>> in order leaves
AttrsOf(pairs) ==
    [n \in {pairs[i][1] : i \in 1..Len(pairs)} |->
        LET i == CHOOSE i \in 1..Len(pairs) :
                     pairs[i][1] = n /\ \A j \in (i + 1)..Len(pairs) : pairs[j][1] # n
        IN  pairs[i][2]]

\* cls(v1, v2, ...): the object with these fields, unless an argument raised
Construct(cls, pairs) ==
    LET vals == [i \in 1..Len(pairs) |-> pairs[i][2]]
    IN  IF AnyRaise(vals) THEN FirstRaise(vals) ELSE Obj(cls, AttrsOf(pairs))

\* j.get(k, dflt)
Get(j, k, dflt) ==
    IF IsRaise(j) THEN j
    ELSE IF j.t # "dict" THEN Raise("AttributeError")
    ELSE IF k \in DOMAIN j.d THEN j.d[k] ELSE dflt

\* a or b
PyOr(a, b) == IF IsRaise(a) THEN a ELSE IF Truthy(a) THEN a ELSE b

(***************************************************************************)
(* Dates and times.  A date string is tokens such as "2020", "-", "01".    *)
(***************************************************************************)
Years == {"1999", "2020", "2021"}

Months == {"01", "06", "12"}

Days == {"01", "15", "28"}

DayTimes == {"01T13:00:00+00:00", "15T00:30:00+00:00"}

ClockTimes == {"01:00", "23:30"}

\* str.count("-")
CountDash(s) == Cardinality({i \in 1..Len(s) : s[i] = "-"})

DateTime(format, s) == [t |-> "datetime", format |-> format, s |-> s]

\* datetime.strptime(s, format) for the three date formats
Strptime(s, format) ==
    LET ok == CASE format = "%Y"       -> Len(s) = 1 /\ s[1] \in Years
                [] format = "%Y-%m"    -> /\ Len(s) = 3
                                          /\ s[1] \in Years /\ s[2] = "-" /\ s[3] \in Months
                [] format = "%Y-%m-%d" -> /\ Len(s) = 5
                                          /\ s[1] \in Years /\ s[2] = "-" /\ s[3] \in Months
                                          /\ s[4] = "-" /\ s[5] \in Days
    IN  IF ok THEN DateTime(format, s) ELSE Raise("ValueError")

\* a format selection that ignores the separators
DateFormatAlwaysFull(s) == "%Y-%m-%d"

\* the format _date_from_str selects for a non-empty string
DateFormat(s) ==
    IF CountDash(s) = 0 THEN "%Y" ELSE IF CountDash(s) = 1 THEN "%Y-%m" ELSE "%Y-%m-%d"

\* Serializer._date_from_str
DateFromStr(v) ==
    IF IsRaise(v) THEN v
    ELSE IF ~Truthy(v) THEN PyNone
    ELSE IF v.t # "str" THEN Raise("AttributeError")
    ELSE Strptime(v.s, DateFormat(v.s))

\* Serializer._datetime_from_iso
DatetimeFromIso(v) ==
    IF IsRaise(v) THEN v
    ELSE IF ~Truthy(v) THEN PyNone
    ELSE IF v.t # "str" THEN Raise("TypeError")
    ELSE IF /\ Len(v.s) = 5
            /\ v.s[1] \in Years /\ v.s[2] = "-" /\ v.s[3] \in Months
            /\ v.s[4] = "-" /\ v.s[5] \in DayTimes
         THEN DateTime("iso", v.s)
         ELSE Raise("ValueError")

\* Serializer._time_from_str
TimeFromStr(v) ==
    IF IsRaise(v) THEN v
    ELSE IF ~Truthy(v) THEN PyNone
    ELSE IF v.t # "str" THEN Raise("TypeError")
    ELSE IF Len(v.s) = 1 /\ v.s[1] \in ClockTimes
         THEN [t |-> "struct_time", s |-> v.s]
         ELSE Raise("ValueError")

(***************************************************************************)
(* _set_attrs and the sub-converters.                                      *)
(***************************************************************************)
\* Serializer._set_attrs(model, data, *attrs): the model afterwards
SetAttrs(model, data, names) ==
    IF IsRaise(model) THEN model
    ELSE IF IsRaise(data) THEN data
    ELSE IF ~Truthy(data) THEN model
    ELSE IF data.t # "dict" THEN Raise("AttributeError")
    ELSE Obj(model.t,
             [n \in DOMAIN model.a \cup names |->
                 IF n \in names
                 THEN IF n \in DOMAIN data.d THEN data.d[n] ELSE PyNone
                 ELSE model.a[n]])

\* the elements `for x in data` yields
Elements(data) ==
    CASE data.t = "list" -> data.l
      [] data.t = "dict" ->
            LET keys == DOMAIN data.d
                RECURSIVE AsSeq(_)
                AsSeq(S) == IF S = {} THEN <<>>
                            ELSE LET k == CHOOSE k \in S : TRUE
                                 IN  <<PyStr(<<k>>)>> \o AsSeq(S \ {k})
            IN  AsSeq(keys)
      [] data.t = "str"  -> [i \in 1..Len(data.s) |-> PyStr(<<data.s[i]>>)]
      [] OTHER           -> <<>>

Iterable(data) == data.t \in {"list", "dict", "str"}

\* a comprehension that gives None for no element
ListOfNoneWhenEmpty(data, outs) ==
    IF IsRaise(data) THEN data
    ELSE IF ~Iterable(data) THEN Raise("TypeError")
    ELSE IF AnyRaise(outs) THEN FirstRaise(outs)
    ELSE IF outs = <<>> THEN PyNone ELSE PyList(outs)

\* [F(x) for x in data], outs being F of each element in turn
ListOf(data, outs) ==
    IF IsRaise(data) THEN data
    ELSE IF ~Iterable(data) THEN Raise("TypeError")
    ELSE IF AnyRaise(outs) THEN FirstRaise(outs) ELSE PyList(outs)

CommonModelOf(x) ==
    Construct("CommonModel", << <<"id", Get(x, "id", PyNone)>>,
                                <<"name", Get(x, "name", PyNone)>> >>)

\* Serializer._deserialize_genres
DeserializeGenres(data) ==
    ListOf(data, [i \in DOMAIN Elements(data) |-> CommonModelOf(Elements(data)[i])])

\* Serializer._deserialize_studios
DeserializeStudios(data) ==
    ListOf(data, [i \in DOMAIN Elements(data) |-> CommonModelOf(Elements(data)[i])])

OptionalPictureOf(x) ==
    Construct("OptionalPictureModel", << <<"medium", Get(x, "medium", PyNone)>>,
                                         <<"large", Get(x, "large", PyNone)>> >>)

\* Serializer._deserialize_pictures
DeserializePictures(data) ==
    ListOf(data, [i \in DOMAIN Elements(data) |-> OptionalPictureOf(Elements(data)[i])])

\* the RelatedMaterialNodeModel built of x.get("node", {})
RelatedNodeOf(x) ==
    LET node == Get(x, "node", EmptyDict)
    IN  Construct("RelatedMaterialNodeModel",
            << <<"id", Get(node, "id", PyNone)>>,
               <<"title", Get(node, "title", PyNone)>>,
               <<"main_picture", OptionalPictureOf(Get(node, "main_picture", EmptyDict))>> >>)

RelatedMaterialOf(x) ==
    Construct("RelatedMaterialModel",
        << <<"node", RelatedNodeOf(x)>>,
           <<"relation_type", Get(x, "relation_type", PyNone)>>,
           <<"relation_type_formatted", Get(x, "relation_type_formatted", PyNone)>> >>)

\* Serializer._deserialize_related_material
DeserializeRelatedMaterial(data) ==
    ListOf(data, [i \in DOMAIN Elements(data) |-> RelatedMaterialOf(Elements(data)[i])])

RecommendationOf(x) ==
    Construct("RecommendationModel",
        << <<"node", RelatedNodeOf(x)>>,
           <<"num_recommendations", Get(x, "num_recommendations", PyNone)>> >>)

\* Serializer._deserialize_recommendations
DeserializeRecommendations(data) ==
    ListOf(data, [i \in DOMAIN Elements(data) |-> RecommendationOf(Elements(data)[i])])

\* Serializer._deserialize_alternative_titles
DeserializeAlternativeTitles(data) ==
    SetAttrs(Obj("TitlesModel", EmptyMap), data, {"synonyms", "en", "ja"})

\* Serializer._deserialize_main_picture
DeserializeMainPicture(data) ==
    SetAttrs(Obj("PictureModel", EmptyMap), data, {"medium", "large"})

(***************************************************************************)
(* The entry points of the Serializer.                                     *)
(***************************************************************************)
TryEnum(cls, v) == IF IsRaise(v) THEN v ELSE try_from_str(cls, v)

StrictEnum(cls, v) == IF IsRaise(v) THEN v ELSE from_str(cls, v)

\* a media type without the fallback to the Unknown member
MediaTypeWithoutFallback(cls, v) == TryEnum(cls, v)

\* `cls.try_from_str(v) or cls.Unknown`
MediaTypeOf(cls, v) == PyOr(TryEnum(cls, v), Member(cls, "Unknown"))

AnimeAttrs ==
    {"id", "title", "synopsis", "mean", "rank", "popularity", "num_list_users",
     "num_scoring_users", "num_episodes", "source", "average_episode_duration",
     "rating", "background"}

\* the AnimeStatistics(AnimeStatisticsStatus(...), num_list_users) of deserialize_anime
AnimeStatisticsOf(data) ==
    LET stats  == Get(data, "statistics", EmptyDict)
        status == Get(stats, "status", EmptyDict)
    IN  Construct("AnimeStatistics",
            << <<"status",
                 Construct("AnimeStatisticsStatus",
                     << <<"watching", Get(status, "watching", PyNone)>>,
                        <<"completed", Get(status, "completed", PyNone)>>,
                        <<"on_hold", Get(status, "on_hold", PyNone)>>,
                        <<"dropped", Get(status, "dropped", PyNone)>>,
                        <<"plan_to_watch", Get(status, "plan_to_watch", PyNone)>> >>)>>,
               <<"num_list_users", Get(stats, "num_list_users", PyNone)>> >>)

\* Serializer.deserialize_anime
deserialize_anime(data) ==
    SetAttrs(
        Construct("Anime",
            << <<"main_picture", DeserializeMainPicture(Get(data, "main_picture", EmptyDict))>>,
               <<"alternative_titles",
                 DeserializeAlternativeTitles(Get(data, "alternative_titles", EmptyDict))>>,
               <<"genres", DeserializeGenres(Get(data, "genres", EmptyList))>>,
               <<"status", TryEnum("AnimeStatus", Get(data, "status", PyNone))>>,
               <<"nsfw", TryEnum("NSFWLevel", Get(data, "nsfw", PyStr(<<"white">>)))>>,
               <<"start_season",
                 Construct("Season",
                     << <<"year", Get(Get(data, "start_season", EmptyDict), "year", PyNone)>>,
                        <<"season",
                          TryEnum("AnimeSeason",
                              Get(Get(data, "start_season", EmptyDict), "season", PyNone))>> >>)>>,
               <<"broadcast",
                 Construct("Broadcast",
                     << <<"day_of_the_week",
                          Get(Get(data, "broadcast", EmptyDict), "day_of_the_week", PyNone)>>,
                        <<"start_time",
                          TimeFromStr(
                              Get(Get(data, "broadcast", EmptyDict), "start_time", PyNone))>> >>)>>,
               <<"studios", DeserializeStudios(Get(data, "studios", EmptyList))>>,
               <<"media_type",
                 MediaTypeOf("AnimeType", Get(data, "media_type", PyNone))>>,
               <<"start_date", DateFromStr(Get(data, "start_date", PyNone))>>,
               <<"end_date", DateFromStr(Get(data, "end_date", PyNone))>>,
               <<"created_at", DatetimeFromIso(Get(data, "created_at", PyNone))>>,
               <<"updated_at", DatetimeFromIso(Get(data, "updated_at", PyNone))>>,
               <<"pictures", DeserializePictures(Get(data, "pictures", EmptyList))>>,
               <<"related_anime",
                 DeserializeRelatedMaterial(Get(data, "related_anime", EmptyList))>>,
               <<"recommendations",
                 DeserializeRecommendations(Get(data, "recommendations", EmptyList))>>,
               <<"statistics", AnimeStatisticsOf(data)>> >>),
        data, AnimeAttrs)

AnimeOfNode(element) == deserialize_anime(Get(element, "node", PyNone))

\* Serializer.deserialize_anime_results
deserialize_anime_results(data) ==
    LET elems == Get(data, "data", EmptyDict)
    IN  ListOf(elems, [i \in DOMAIN Elements(elems) |-> AnimeOfNode(Elements(elems)[i])])

\* a ranking wrapper that drops the rank of the element
AnimeRankingWithoutRank(element) ==
    Construct("AnimeRanking",
        << <<"anime_data", deserialize_anime(Get(element, "node", EmptyDict))>>,
           <<"ranking", Construct("RankingModel", << <<"rank", PyNone>> >>)>> >>)

AnimeRankingOf(element) ==
    Construct("AnimeRanking",
        << <<"anime_data", deserialize_anime(Get(element, "node", EmptyDict))>>,
           <<"ranking",
             Construct("RankingModel",
                 << <<"rank", Get(Get(element, "ranking", EmptyDict), "rank", PyNone)>> >>)>> >>)

\* Serializer.deserialize_anime_ranking
deserialize_anime_ranking(data) ==
    LET elems == Get(data, "data", EmptyList)
    IN  ListOf(elems, [i \in DOMAIN Elements(elems) |-> AnimeRankingOf(Elements(elems)[i])])

\* Serializer._deserialize_user_anime_list_status
DeserializeUserAnimeListStatus(data) ==
    SetAttrs(
        Construct("AnimeListStatus",
            << <<"status",
                 StrictEnum("AnimeWatchStatus", Get(data, "status", PyStr(<<"watching">>)))>>,
               <<"updated_at", DatetimeFromIso(Get(data, "updated_at", PyNone))>>,
               <<"start_date", DateFromStr(Get(data, "start_date", PyNone))>>,
               <<"finish_date", DateFromStr(Get(data, "finish_date", PyNone))>> >>),
        data, {"score", "num_episodes_watched", "is_rewatching"})

\* Serializer.deserialize_user_anime_list
deserialize_user_anime_list(data) ==
    Construct("AnimeList",
        << <<"anime_data", deserialize_anime(Get(data, "node", EmptyDict))>>,
           <<"list_status",
             DeserializeUserAnimeListStatus(Get(data, "list_status", EmptyDict))>> >>)

\* Serializer.deserialize_anime_list_update
deserialize_anime_list_update(data) ==
    SetAttrs(
        Construct("AnimeListUpdate",
            << <<"priority", StrictEnum("ListPriority", Get(data, "priority", PyNone))>>,
               <<"rewatch_value",
                 TryEnum("AnimeRewatchValue", Get(data, "rewatch_value", PyNone))>>,
               <<"updated_at", DatetimeFromIso(Get(data, "updated_at", PyNone))>> >>),
        data,
        {"status", "score", "num_episodes_watched", "is_rewatching",
         "num_times_rewatched", "tags", "comments"})

\* Serializer.deserialize_manga_list_update
deserialize_manga_list_update(data) ==
    SetAttrs(
        Construct("MangaListUpdate",
            << <<"priority", StrictEnum("ListPriority", Get(data, "priority", PyNone))>>,
               <<"reread_value",
                 TryEnum("MangaRereadValue", Get(data, "reread_value", PyNone))>>,
               <<"updated_at", DatetimeFromIso(Get(data, "updated_at", PyNone))>> >>),
        data,
        {"status", "score", "num_volumes_read", "num_chapters_read", "is_rereading",
         "num_times_reread", "tags", "comments"})

(***************************************************************************)
(* The manga entry points of the Serializer.                               *)
(***************************************************************************)
AuthorOf(x) ==
    LET node == Get(x, "node", EmptyDict)
    IN  Construct("Author",
            << <<"node",
                 Construct("AuthorName",
                     << <<"id", Get(node, "id", PyNone)>>,
                        <<"first_name", Get(node, "first_name", PyNone)>>,
                        <<"last_name", Get(node, "last_name", PyNone)>> >>)>>,
               <<"role", Get(x, "role", PyNone)>> >>)

\* Serializer._deserialize_authors
DeserializeAuthors(data) ==
    ListOf(data, [i \in DOMAIN Elements(data) |-> AuthorOf(Elements(data)[i])])

SerializationOf(x) ==
    LET node == Get(x, "node", EmptyDict)
    IN  Construct("CommonModel", << <<"id", Get(node, "id", PyNone)>>,
                                    <<"name", Get(node, "name", PyNone)>> >>)

\* Serializer._deserialize_manga_serialization
DeserializeMangaSerialization(data) ==
    ListOf(data, [i \in DOMAIN Elements(data) |-> SerializationOf(Elements(data)[i])])

MangaAttrs ==
    {"id", "title", "synopsis", "mean", "rank", "popularity", "num_list_users",
     "num_scoring_users", "num_volumes", "num_chapters", "background"}

\* Serializer.deserialize_manga
deserialize_manga(data) ==
    SetAttrs(
        Construct("Manga",
            << <<"nsfw", TryEnum("NSFWLevel", Get(data, "nsfw", PyStr(<<"white">>)))>>,
               <<"media_type",
                 MediaTypeOf("MangaType", Get(data, "media_type", PyStr(<<"unknown">>)))>>,
               <<"status", TryEnum("MangaStatus", Get(data, "status", PyNone))>>,
               <<"main_picture", DeserializeMainPicture(Get(data, "main_picture", EmptyDict))>>,
               <<"pictures", DeserializePictures(Get(data, "pictures", EmptyList))>>,
               <<"alternative_titles",
                 DeserializeAlternativeTitles(Get(data, "alternative_titles", EmptyDict))>>,
               <<"genres", DeserializeGenres(Get(data, "genres", EmptyList))>>,
               <<"authors", DeserializeAuthors(Get(data, "authors", EmptyList))>>,
               <<"related_manga",
                 DeserializeRelatedMaterial(Get(data, "related_manga", EmptyList))>>,
               <<"recommendations",
                 DeserializeRecommendations(Get(data, "recommendations", EmptyList))>>,
               <<"serialization",
                 DeserializeMangaSerialization(Get(data, "serialization", EmptyDict))>>,
               <<"start_date", DateFromStr(Get(data, "start_date", PyNone))>>,
               <<"end_date", DateFromStr(Get(data, "end_date", PyNone))>>,
               <<"created_at", DatetimeFromIso(Get(data, "created_at", PyNone))>>,
               <<"updated_at", DatetimeFromIso(Get(data, "updated_at", PyNone))>> >>),
        data, MangaAttrs)

MangaOfNode(element) == deserialize_manga(Get(element, "node", PyNone))

\* Serializer.deserialize_manga_results
deserialize_manga_results(data) ==
    LET elems == Get(data, "data", EmptyDict)
    IN  ListOf(elems, [i \in DOMAIN Elements(elems) |-> MangaOfNode(Elements(elems)[i])])

MangaRankingOf(element) ==
    Construct("MangaRanking",
        << <<"manga_data", deserialize_manga(Get(element, "node", EmptyDict))>>,
           <<"ranking",
             Construct("RankingModel",
                 << <<"rank", Get(Get(element, "ranking", EmptyDict), "rank", PyNone)>> >>)>> >>)

\* Serializer.deserialize_manga_ranking
deserialize_manga_ranking(data) ==
    LET elems == Get(data, "data", EmptyList)
    IN  ListOf(elems, [i \in DOMAIN Elements(elems) |-> MangaRankingOf(Elements(elems)[i])])

\* Serializer._deserialize_user_manga_list_status
DeserializeUserMangaListStatus(data) ==
    SetAttrs(
        Construct("MangaListStatus",
            << <<"status",
                 StrictEnum("MangaReadStatus", Get(data, "status", PyStr(<<"reading">>)))>>,
               <<"updated_at", DatetimeFromIso(Get(data, "updated_at", PyNone))>>,
               <<"start_date", DateFromStr(Get(data, "start_date", PyNone))>>,
               <<"finish_date", DateFromStr(Get(data, "finish_date", PyNone))>> >>),
        data, {"score", "num_volumes_read", "num_chapters_read", "is_rereading"})

\* Serializer.deserialize_user_manga_list
deserialize_user_manga_list(data) ==
    Construct("MangaList",
        << <<"manga", deserialize_manga(Get(data, "node", EmptyDict))>>,
           <<"list_status",
             DeserializeUserMangaListStatus(Get(data, "list_status", EmptyDict))>> >>)

(***************************************************************************)
(* serializer.py: the forum entry points.                                  *)
(***************************************************************************)
\* Serializer.deserialize_forum_topic
deserialize_forum_topic(data) ==
    SetAttrs(
        Construct("ForumTopic",
            << <<"created_by", CommonModelOf(Get(data, "created_by", EmptyDict))>>,
               <<"last_post_created_by",
                 CommonModelOf(Get(data, "last_post_created_by", EmptyDict))>>,
               <<"created_at", DatetimeFromIso(Get(data, "created_at", PyNone))>>,
               <<"last_post_created_at",
                 DatetimeFromIso(Get(data, "last_post_created_at", PyNone))>> >>),
        data,
        {"id", "title", "number_of_posts", "is_locked"})

SubBoardOf(subboard) ==
    Construct("ForumSubBoard", << <<"id", Get(subboard, "id", PyNone)>>,
                                  <<"title", Get(subboard, "title", PyNone)>> >>)

\* Serializer._deserialize_board
DeserializeBoard(data) ==
    LET board == SetAttrs(Obj("ForumBoard", EmptyMap), data, {"id", "title", "description"})
        raw == Get(data, "subboards", EmptyList)
        subboards == ListOf(raw, [i \in DOMAIN Elements(raw) |-> SubBoardOf(Elements(raw)[i])])
    IN  IF IsRaise(board) THEN board
        ELSE IF IsRaise(subboards) THEN subboards
        ELSE Obj("ForumBoard", [subboards |-> subboards] @@ board.a)

\* Serializer._deserialize_forum_post
DeserializeForumPost(data) ==
    SetAttrs(
        Construct("ForumPost",
            << <<"created_at", DatetimeFromIso(Get(data, "created_at", PyNone))>>,
               <<"created_by",
                 SetAttrs(Obj("PostCreator", EmptyMap), Get(data, "created_by", EmptyDict),
                          {"id", "name", "forum_avator"})>> >>),
        data,
        {"id", "number", "body", "signature"})

\* Serializer.deserialize_forum_topic_details
deserialize_forum_topic_details(data) ==
    LET raw == Get(data, "posts", EmptyList)
        posts == ListOf(raw, [i \in DOMAIN Elements(raw) |->
                                 DeserializeForumPost(Elements(raw)[i])])
    IN  SetAttrs(Construct("ForumTopicDetails", << <<"posts", posts>> >>), data, {"title"})

(***************************************************************************)
(* services: the transport (services/http.py) and the service operations.  *)
(***************************************************************************)
\* HttpService.fetch: what is handed to the session for a builder on route r
Request(rts, r, method, params, data) ==
    [method |-> method, uri |-> rts[r].uri, params |-> params, data |-> data]

NothingSent == [method |-> "", uri |-> <<>>, params |-> EmptyMap, data |-> EmptyMap]

\* AnimeService._fields
AnimeFields ==
    "id,title,main_picture,alternative_titles,start_date,end_date,synopsis,mean,rank,popularity,num_list_users,num_scoring_users,nsfw,created_at,updated_at,media_type,status,genres,num_episodes,start_season,broadcast,source,average_episode_duration,rating,pictures,background,related_anime,related_manga,recommendations,studios,statistics"

\* the JSON bodies the API answers a request for one anime with
AnimeBodies ==
    { PyDict(EmptyMap),
      PyDict([id |-> PyInt(1), media_type |-> PyStr(<<"tv">>),
              start_date |-> PyStr(<<"1999", "-", "06">>)]) }

\* the JSON bodies the API answers a search with: a page of wrapped nodes
SearchBodies ==
    { PyDict([data |-> PyList(<<PyDict([node |-> PyDict([id |-> PyInt(1),
                                                         title |-> PyStr(<<"Cowboy Bebop">>)])])>>)]),
      PyDict([data |-> PyList(<<PyDict(EmptyMap)>>)]) }

\* what the session call gives: a response with a status and a body, or an exception
Response(status, body) == [kind |-> "response", status |-> status, body |-> body]

Exception(msg) == [kind |-> "exception", msg |-> PyStr(<<msg>>)]

\* a body r.json() cannot decode
NotJson == [t |-> "not json"]

\* the outcomes of the session call: the bodies with status 200 and 201, an
\* empty 204, an error status with a JSON error object, and a network failure
RawOutcomes(bodies) ==
    {Response(200, b) : b \in bodies}
        \cup {Response(201, b) : b \in bodies}
        \cup { Response(204, NotJson),
               Response(404, PyDict([error |-> PyStr(<<"not_found">>)])),
               Exception("timeout") }

\* HttpService._request
request(raw) ==
    IF raw.kind = "exception" THEN HttpErrorResponse(500, raw.msg)
    ELSE IF raw.body = NotJson THEN HttpErrorResponse(500, PyStr(<<"ContentTypeError">>))
    ELSE IF raw.status = 200 THEN HttpSuccessResponse(raw.status, PyStr(<<"Success.">>), raw.body)
    ELSE IF IsRaise(Get(raw.body, "error", PyNone))
         THEN HttpErrorResponse(500, PyStr(<<Get(raw.body, "error", PyNone).exc>>))
         ELSE HttpErrorResponse(raw.status, Get(raw.body, "error", PyNone))

\* HttpService.fetch(route, method): _get_session_method, then _request,
\* any exception of either becoming an HttpErrorResponse(500, ...)
fetch(raw, method) ==
    IF method \notin DOMAIN HttpEnums.HttpMethod
    THEN HttpErrorResponse(500, PyStr(<<"KeyError">>))
    ELSE request(raw)

NothingFetched == [by |-> "none", raw |-> Exception(""), resp |-> PyNone]

\* headers that keep the client id next to the bearer token
SetHeadersKeepingBoth(client_id, access_token) ==
    IF ~Truthy(client_id) /\ ~Truthy(access_token) THEN Raise("ValueError")
    ELSE PyDict([h \in (IF Truthy(client_id) THEN {"X-MAL-CLIENT-ID"} ELSE {})
                        \cup (IF Truthy(access_token) THEN {"Authorization"} ELSE {}) |->
                    IF h = "Authorization"
                    THEN PyStr(<<"Bearer ">> \o access_token.s) ELSE client_id])

\* HttpService._set_headers(client_id, access_token)
SetHeaders(client_id, access_token) ==
    IF ~Truthy(client_id) /\ ~Truthy(access_token) THEN Raise("ValueError")
    ELSE IF Truthy(access_token)
         THEN PyDict([h \in {"Authorization"} |-> PyStr(<<"Bearer ">> \o access_token.s)])
         ELSE PyDict([h \in {"X-MAL-CLIENT-ID"} |-> client_id])

\* HttpService.__init__(client_id, access_token): the headers, then an open session
HttpService(client_id, access_token) ==
    IF IsRaise(SetHeaders(client_id, access_token)) THEN SetHeaders(client_id, access_token)
    ELSE [t |-> "HttpService", _headers |-> SetHeaders(client_id, access_token),
          closed |-> FALSE, closes |-> 0]

NotConstructed == [t |-> "not constructed"]

\* the session method called by _request: a closed aiohttp session raises
\* RuntimeError("Session is closed") before anything is sent
SessionCall(service, raw) ==
    IF service.closed THEN Exception("Session is closed") ELSE raw

\* a close that closes the session whatever its state
ClosedAgain(service) == [service EXCEPT !.closed = TRUE, !.closes = @ + 1]

\* HttpService.close: closes the session if there is one and it is open;
\* closes counts the calls of session.close()
Closed(service) ==
    IF service.closed THEN service
    ELSE [service EXCEPT !.closed = TRUE, !.closes = @ + 1]

\* a call of an operation with the arguments kw, that called fetch so many times
Call(op, kw, fetches) == [op |-> op, kw |-> kw, fetches |-> fetches]

NoCall == Call("none", EmptyMap, 0)

IsHttpError(resp) == resp.t = "HttpErrorResponse"

\* the Result a service returns for a response, or the exception of its mapper
ServiceOutcome(resp, mapped) ==
    IF IsHttpError(resp) THEN Error(resp)
    ELSE IF IsRaise(mapped) THEN mapped ELSE Success(mapped)

\* a service operation ending: a Result returned, or an exception escaping
Returns(by, raw, resp, outcome) ==
    /\ fetched' = [by |-> by, raw |-> raw, resp |-> resp]
    /\ results' = IF IsRaise(outcome) THEN results ELSE Append(results, outcome)
    /\ resFrom' = IF IsRaise(outcome) THEN resFrom
                  ELSE Append(resFrom, [by |-> by, service |-> TRUE, arg |-> resp])
    /\ raised' = IF IsRaise(outcome) THEN outcome ELSE PyNone

\* what each service operation wraps in its Success
Mapped(by, data) ==
    CASE by = "delete_anime_from_list" -> PyStr(<<"Succesfully deleted anime from the list.">>)
      [] by = "delete_manga_from_list" -> PyStr(<<"Succesfully deleted manga from the list.">>)
      [] by = "get_anime"              -> deserialize_anime(data)
      [] by = "search_anime"           -> deserialize_anime_results(data)
      [] by = "search_manga"           -> deserialize_manga_results(data)
      [] by = "get_forum_topics"       ->
             LET topics == Get(data, "data", EmptyList)
             IN  ListOf(topics, [i \in DOMAIN Elements(topics) |->
                                    deserialize_forum_topic(Elements(topics)[i])])
      [] by = "get_anime_list"         ->
             LET items == Get(data, "data", EmptyList)
             IN  ListOf(items, [i \in DOMAIN Elements(items) |->
                                   deserialize_user_anime_list(Elements(items)[i])])
      [] by = "update_anime_list"      -> deserialize_anime_list_update(data)
      [] by = "update_manga_list"      -> deserialize_manga_list_update(data)

\* the common end of the service operations, called with the arguments kw:
\* fetch, then Error or Success
FetchAndWrap(by, kw, method, raw) ==
    LET given == SessionCall(http, raw)
        resp == fetch(given, method)
    IN  /\ called' = Call(by, kw, 1)
        /\ UNCHANGED http
        /\ Returns(by, given, resp,
               ServiceOutcome(resp, IF IsHttpError(resp) THEN PyNone ELSE Mapped(by, resp.data)))

\* `100 if limit > 100 else limit`
ClampLimit(limit) == IF limit > 100 THEN 100 ELSE limit

\* `0 if offset < 0 else offset`
ClampOffset(offset) == IF offset < 0 THEN 0 ELSE offset

\* AnimeService.search_anime(anime_name, limit=..., offset=...)
SearchAnime(anime_name, limit, offset, raw) ==
    /\ Len(results) < MaxResults
    /\ routes' = UriSetter("SEARCH_ANIME", SubstituteArgs(routes["SEARCH_ANIME"].uri, <<>>))
    /\ sent' = Request(routes', "SEARCH_ANIME", "Get",
                   [fields |-> AnimeFields, limit |-> ClampLimit(limit),
                    offset |-> ClampOffset(offset), q |-> anime_name], EmptyMap)
    /\ FetchAndWrap("search_anime",
           [anime_name |-> anime_name, limit |-> PyInt(limit), offset |-> PyInt(offset)],
           "Get", raw)

\* UserService.delete_anime_from_list(anime_id)
DeleteAnimeFromList(anime_id, raw) ==
    /\ Len(results) < MaxResults
    /\ routes' = UriSetter("DELETE_ANIME_FROM_LIST",
                     SubstituteArgs(routes["DELETE_ANIME_FROM_LIST"].uri, <<anime_id>>))
    /\ sent' = Request(routes', "DELETE_ANIME_FROM_LIST", "Delete", EmptyMap, EmptyMap)
    /\ FetchAndWrap("delete_anime_from_list", [anime_id |-> anime_id], "Delete", raw)

\* UserService.delete_manga_from_list(manga_id)
DeleteMangaFromList(manga_id, raw) ==
    /\ Len(results) < MaxResults
    /\ routes' = UriSetter("DELETE_MANGA_FROM_LIST",
                     SubstituteArgs(routes["DELETE_MANGA_FROM_LIST"].uri, <<manga_id>>))
    /\ sent' = Request(routes', "DELETE_MANGA_FROM_LIST", "Delete", EmptyMap, EmptyMap)
    /\ FetchAndWrap("delete_manga_from_list", [manga_id |-> manga_id], "Delete", raw)

\* AnimeService.get_anime(id)
GetAnime(id, raw) ==
    /\ Len(results) < MaxResults
    /\ routes' = UriSetter("GET_ANIME", SubstituteArgs(routes["GET_ANIME"].uri, <<id>>))
    /\ sent' = Request(routes', "GET_ANIME", "Get", [fields |-> AnimeFields], EmptyMap)
    /\ FetchAndWrap("get_anime", [id |-> id], "Get", raw)

\* a caller building a Result itself: Success(v)
ConstructSuccess(v) ==
    /\ Len(results) < MaxResults
    /\ results' = Append(results, Success(v))
    /\ resFrom' = Append(resFrom, [by |-> "Success", service |-> FALSE, arg |-> v])
    /\ UNCHANGED <<routes, sent, raised, fetched, http, called>>

\* a caller building a Result itself: Error(e)
ConstructError(e) ==
    /\ Len(results) < MaxResults
    /\ results' = Append(results, Error(e))
    /\ resFrom' = Append(resFrom, [by |-> "Error", service |-> FALSE, arg |-> e])
    /\ UNCHANGED <<routes, sent, raised, fetched, http, called>>

(***************************************************************************)
(* client.py and the services of a client: construction, close, and the    *)
(* operations that validate or shape their arguments.                      *)
(***************************************************************************)
\* Client.__init__ builds HttpService(client_id=...), UserClient.__init__
\* HttpService(access_token=...): the service tells which by its header
IsClient(service) ==
    service # NotConstructed /\ "X-MAL-CLIENT-ID" \in DOMAIN service._headers.d

IsUserClient(service) ==
    service # NotConstructed /\ "Authorization" \in DOMAIN service._headers.d

\* an operation that ends before any fetch, raising or returning nothing
EndsWithoutFetch(op, kw, exc) ==
    /\ called' = Call(op, kw, 0)
    /\ raised' = exc
    /\ UNCHANGED <<routes, results, resFrom, sent, fetched>>

\* HttpService.__init__(client_id, access_token), as Client and UserClient call it
NewHttpService(client_id, access_token) ==
    /\ http = NotConstructed
    /\ http' = IF IsRaise(HttpService(client_id, access_token))
               THEN http ELSE HttpService(client_id, access_token)
    /\ EndsWithoutFetch("HttpService",
           [client_id |-> client_id, access_token |-> access_token],
           IF IsRaise(HttpService(client_id, access_token))
           THEN HttpService(client_id, access_token) ELSE PyNone)

\* Client.close / UserClient.close: HttpService.close
Close ==
    /\ http # NotConstructed
    /\ http' = Closed(http)
    /\ EndsWithoutFetch("close", EmptyMap, PyNone)

\* `x if x else ""`
OrEmpty(x) == IF Truthy(x) THEN x ELSE PyStr(<<>>)

\* ForumService.get_forum_topics(query=..., board_id=..., subboard_id=...,
\* limit=..., offset=..., topic_user_name=..., username=...)
GetForumTopics(kw, raw) ==
    /\ Len(results) < MaxResults
    /\ IF \/ Truthy(kw.query) \/ Truthy(kw.board_id) \/ Truthy(kw.subboard_id)
          \/ Truthy(kw.topic_user_name) \/ Truthy(kw.username)
       THEN /\ routes' = UriSetter("GET_FORUM_TOPICS",
                            SubstituteArgs(routes["GET_FORUM_TOPICS"].uri, <<>>))
            /\ sent' = Request(routes', "GET_FORUM_TOPICS", "Get",
                           [q |-> OrEmpty(kw.query),
                            board_id |-> OrEmpty(kw.board_id),
                            subboard_id |-> OrEmpty(kw.subboard_id),
                            topic_user_name |-> OrEmpty(kw.topic_user_name),
                            username |-> OrEmpty(kw.username),
                            limit |-> kw.limit,
                            offset |-> kw.offset], EmptyMap)
            /\ FetchAndWrap("get_forum_topics", kw, "Get", raw)
       ELSE /\ EndsWithoutFetch("get_forum_topics", kw, Raise("ValueError"))
            /\ UNCHANGED http

\* MangaService._fields
MangaFields ==
    "id,title,main_picture,alternative_titles,start_date,end_date,synopsis,mean,rank,popularity,num_list_users,num_scoring_users,nsfw,created_at,updated_at,media_type,status,genres,my_list_status,num_volumes,num_chapters,authors{first_name,last_name},pictures,background,related_anime,related_manga,recommendations,serialization"

\* UserService._anime_fields
UserAnimeFields ==
    "id,title,main_picture,alternative_titles,start_date,end_date,synopsis,mean,rank,popularity,num_list_users,num_scoring_users,nsfw,created_at,updated_at,media_type,status,genres,num_episodes,start_season,broadcast,source,average_episode_duration,rating,pictures,background,related_anime,related_manga,recommendations,studios,statistics,list_status"

\* MangaService.search_manga(manga_name, limit=..., offset=...)
SearchManga(manga_name, limit, offset, raw) ==
    /\ Len(results) < MaxResults
    /\ routes' = UriSetter("SEARCH_MANGA", SubstituteArgs(routes["SEARCH_MANGA"].uri, <<>>))
    /\ sent' = Request(routes', "SEARCH_MANGA", "Get",
                   [fields |-> MangaFields, limit |-> ClampLimit(limit),
                    offset |-> ClampOffset(offset), q |-> manga_name], EmptyMap)
    /\ FetchAndWrap("search_manga",
           [manga_name |-> manga_name, limit |-> PyInt(limit), offset |-> PyInt(offset)],
           "Get", raw)

\* `x.value if x else ""`
ValueOrEmpty(x) == IF Truthy(x) THEN EnumMembers[x.cls][x.name] ELSE PyStr(<<>>)

\* UserService.get_anime_list(username, status=..., sort=..., limit=..., offset=...)
GetAnimeList(username, status, sort, limit, offset, raw) ==
    /\ Len(results) < MaxResults
    /\ routes' = UriSetter("GET_USER_ANIME_LIST",
                     SubstituteArgs(routes["GET_USER_ANIME_LIST"].uri, <<username>>))
    /\ sent' = Request(routes', "GET_USER_ANIME_LIST", "Get",
                   [fields |-> UserAnimeFields, status |-> ValueOrEmpty(status),
                    sort |-> ValueOrEmpty(sort), limit |-> ClampLimit(limit),
                    offset |-> ClampOffset(offset)], EmptyMap)
    /\ FetchAndWrap("get_anime_list",
           [username |-> username, status |-> status, sort |-> sort,
            limit |-> PyInt(limit), offset |-> PyInt(offset)],
           "Get", raw)

\* `None if not score else 10 if score > 10 else 0 if score < 0 else score`
ClampScore(score) ==
    IF ~Truthy(score) THEN PyNone
    ELSE IF score.n > 10 THEN PyInt(10)
    ELSE IF score.n < 0 THEN PyInt(0)
    ELSE score

\* `x.value if x else None`
ValueOrNone(x) == IF Truthy(x) THEN EnumMembers[x.cls][x.name] ELSE PyNone

\* UserService._generate_data_map(**kwargs)
GenerateDataMap(kwargs) ==
    [key \in {k \in DOMAIN kwargs : Truthy(kwargs[k])} |-> kwargs[key]]

\* UserService.update_anime_list(anime_id, status=..., is_rewatching=..., ...)
UpdateAnimeList(anime_id, kw, raw) ==
    /\ Len(results) < MaxResults
    /\ routes' = UriSetter("UPDATE_USER_ANIME_LIST",
                     SubstituteArgs(routes["UPDATE_USER_ANIME_LIST"].uri, <<anime_id>>))
    /\ sent' = Request(routes', "UPDATE_USER_ANIME_LIST", "Patch", EmptyMap,
                   GenerateDataMap(
                       [status |-> kw.status,
                        is_rewatching |-> kw.is_rewatching,
                        score |-> ClampScore(kw.score),
                        num_watched_episodes |-> kw.num_watched_episodes,
                        priority |-> ValueOrNone(kw.priority),
                        num_times_rewatched |-> kw.num_times_rewatched,
                        rewatch_value |-> ValueOrNone(kw.rewatch_value),
                        tags |-> kw.tags,
                        comments |-> kw.comments]))
    /\ FetchAndWrap("update_anime_list", [anime_id |-> anime_id] @@ kw, "Patch", raw)

\* UserService.update_manga_list(manga_id, status=..., is_rereading=..., ...)
UpdateMangaList(manga_id, kw, raw) ==
    /\ Len(results) < MaxResults
    /\ routes' = UriSetter("UPATE_USER_MANGA_LIST",
                     SubstituteArgs(routes["UPATE_USER_MANGA_LIST"].uri, <<manga_id>>))
    /\ sent' = Request(routes', "UPATE_USER_MANGA_LIST", "Patch", EmptyMap,
                   GenerateDataMap(
                       [status |-> kw.status,
                        is_rereading |-> kw.is_rereading,
                        score |-> ClampScore(kw.score),
                        num_volumes_read |-> kw.num_volumes_read,
                        num_chapters_read |-> kw.num_chapters_read,
                        priority |-> ValueOrNone(kw.priority),
                        num_times_reread |-> kw.num_times_reread,
                        reread_value |-> ValueOrNone(kw.reread_value),
                        tags |-> kw.tags,
                        comments |-> kw.comments]))
    /\ FetchAndWrap("update_manga_list", [manga_id |-> manga_id] @@ kw, "Patch", raw)

(***************************************************************************)
(* Initial states.  Each specification below drives one layer and leaves   *)
(* the variables of the other layers at their initial values.              *)
(***************************************************************************)
InitRoute ==
    /\ routes = Endpoints
    /\ builders = <<>>
    /\ genArgs = <<>>
    /\ chain = <<>>
    /\ ret = 0
    /\ lastOp = [op |-> "init", on |-> 0]

InitResults ==
    /\ results = <<>>
    /\ resFrom = <<>>
    /\ sent = NothingSent
    /\ raised = PyNone
    /\ fetched = NothingFetched
    /\ http = HttpService(PyStr(<<"client-id">>), PyNone)
    /\ called = NoCall

InitEnumIdle ==
    /\ enumCls = "NSFWLevel"
    /\ enumWire = PyNone
    /\ enumStrict = NotCalled
    /\ enumTry = NotCalled

InitMapperIdle ==
    /\ mEntry = "none"
    /\ mPayload = PyNone
    /\ mOut = NotCalled

Init == InitRoute /\ InitResults /\ InitEnumIdle /\ InitMapperIdle

(***************************************************************************)
(* The route layer: callers generating builders from the shared Routes.    *)
(***************************************************************************)
\* the argument tuples callers pass: ids, a year and a season, a user name;
\* the last is a user name that itself holds the text "()"
ArgTuples ==
    { <<>>,
      <<PyInt(1)>>,
      <<PyInt(2)>>,
      <<PyInt(2020), PyStr(<<"fall">>)>>,
      <<PyInt(2021), PyStr(<<"winter">>)>>,
      <<PyStr(<<"(", ")">>), PyInt(12)>> }

PlaceholderRoutes == {"GET_ANIME", "GET_SEASONAL_ANIME"}

OneParam == PyDict([fields |-> "id,title"])

OneData == PyDict([score |-> 7])

CallGenerateRoute ==
    /\ \E r \in PlaceholderRoutes, args \in ArgTuples : GenerateRoute(r, args)
    /\ UNCHANGED <<resultVars, enumVars, mapperVars>>

CallWithParams ==
    /\ \E i \in 1..Len(builders) : WithParams(i, OneParam)
    /\ UNCHANGED <<resultVars, enumVars, mapperVars>>

CallWithData ==
    /\ \E i \in 1..Len(builders) : WithData(i, OneData)
    /\ UNCHANGED <<resultVars, enumVars, mapperVars>>

Next == CallGenerateRoute \/ CallWithParams \/ CallWithData

Spec == Init /\ [][Next]_vars

(***************************************************************************)
(* One request being assembled: route.generate_route().with_params(...)    *)
(* .with_data(...), as the service methods chain the calls.                *)
(***************************************************************************)
ParamKeys == {"limit", "offset"}

ParamVals == {10, 100}

DataKeys == {"score"}

DataVals == {7, 9}

\* None, the empty dict and every dict over the keys
ParamInputs == {PyNone} \cup {PyDict(m) : m \in UNION {[S -> ParamVals] : S \in SUBSET ParamKeys}}

DataInputs == {PyNone} \cup {PyDict(m) : m \in UNION {[S -> DataVals] : S \in SUBSET DataKeys}}

StartChain ==
    /\ builders = <<>>
    /\ GenerateRoute("SEARCH_ANIME", <<>>)
    /\ UNCHANGED <<resultVars, enumVars, mapperVars>>

ChainWithParams ==
    /\ \E i \in 1..Len(builders), p \in ParamInputs : WithParams(i, p)
    /\ UNCHANGED <<resultVars, enumVars, mapperVars>>

ChainWithData ==
    /\ \E i \in 1..Len(builders), d \in DataInputs : WithData(i, d)
    /\ UNCHANGED <<resultVars, enumVars, mapperVars>>

NextBuilder == StartChain \/ ChainWithParams \/ ChainWithData

SpecBuilder == Init /\ [][NextBuilder]_vars

(***************************************************************************)
(* Results: callers building Results themselves, and the service           *)
(* operations returning them.                                              *)
(***************************************************************************)
\* the values a caller wraps: a mapped value, a message, an error response, None
ResultArgs ==
    { PyInt(7), PyNone, HttpErrorResponse(401, PyStr(<<"invalid_token">>)) }

Ids == {PyInt(1), PyInt(2)}

\* the limit and offset keyword arguments: the default and a value to clamp
Pages == {[limit |-> 10, offset |-> 0], [limit |-> 500, offset |-> -5]}

\* the searches: every outcome for the default page, the answered ones for the other
Searches ==
    {<<p, raw>> \in Pages \X RawOutcomes(SearchBodies) :
        p.limit = 10 \/ (raw.kind = "response" /\ raw.status = 200)}

CallSuccess ==
    /\ \E v \in ResultArgs : ConstructSuccess(v)
    /\ UNCHANGED <<builders, genArgs, chain, ret, lastOp, enumVars, mapperVars>>

CallError ==
    /\ \E e \in ResultArgs : ConstructError(e)
    /\ UNCHANGED <<builders, genArgs, chain, ret, lastOp, enumVars, mapperVars>>

CallDeleteAnimeFromList ==
    /\ \E id \in Ids, raw \in RawOutcomes({PyDict(EmptyMap)}) : DeleteAnimeFromList(id, raw)
    /\ UNCHANGED <<builders, genArgs, chain, ret, lastOp, enumVars, mapperVars>>

CallDeleteMangaFromList ==
    /\ \E raw \in RawOutcomes({PyDict(EmptyMap)}) : DeleteMangaFromList(PyInt(2), raw)
    /\ UNCHANGED <<builders, genArgs, chain, ret, lastOp, enumVars, mapperVars>>

CallGetAnime ==
    /\ \E raw \in RawOutcomes(AnimeBodies) : GetAnime(PyInt(1), raw)
    /\ UNCHANGED <<builders, genArgs, chain, ret, lastOp, enumVars, mapperVars>>

CallSearchAnime ==
    /\ \E s \in Searches : SearchAnime(PyStr(<<"bebop">>), s[1].limit, s[1].offset, s[2])
    /\ UNCHANGED <<builders, genArgs, chain, ret, lastOp, enumVars, mapperVars>>

NextResult ==
    \/ CallSuccess
    \/ CallError
    \/ CallDeleteAnimeFromList
    \/ CallDeleteMangaFromList
    \/ CallGetAnime
    \/ CallSearchAnime

SpecResult == Init /\ [][NextResult]_vars

(***************************************************************************)
(* Vocabulary conversion: one wire value converted to one enum class.      *)
(***************************************************************************)
\* every value any enum class has on the wire
WireValues == UNION {{EnumMembers[c][n] : n \in DOMAIN EnumMembers[c]} : c \in EnumClasses}

\* values that are no member's wire representation of any class, of every JSON type
ForeignValues ==
    { PyStr(<<"not_a_symbol">>), PyStr(<<>>), PyStr(<<"TV">>), PyNone, PyInt(7), PyInt(-1),
      PyBool(TRUE), PyBool(FALSE), PyList(<<>>), PyDict(EmptyMap) }

InitEnum ==
    /\ InitRoute /\ InitResults /\ InitMapperIdle
    /\ enumCls \in EnumClasses
    /\ enumWire \in WireValues \cup ForeignValues
    /\ enumStrict = NotCalled
    /\ enumTry = NotCalled

CallFromStr ==
    /\ enumStrict = NotCalled
    /\ enumStrict' = from_str(enumCls, enumWire)
    /\ UNCHANGED <<enumCls, enumWire, enumTry, routeVars, resultVars, mapperVars>>

CallTryFromStr ==
    /\ enumTry = NotCalled
    /\ enumTry' = try_from_str(enumCls, enumWire)
    /\ UNCHANGED <<enumCls, enumWire, enumStrict, routeVars, resultVars, mapperVars>>

NextEnum == CallFromStr \/ CallTryFromStr

SpecEnum == InitEnum /\ [][NextEnum]_vars

(***************************************************************************)
(* Mapping: one Serializer entry point applied to one payload.  The        *)
(* payloads are a complete payload of the API and the payloads with some   *)
(* of its fields missing.                                                  *)
(***************************************************************************)
Restrict(d, K) == [k \in K |-> d[k]]

\* the key sets with at most two keys missing, or at most two keys present
NearSubsets(S) ==
    {S \ {a, b} : a, b \in S} \cup {{a, b} : a, b \in S} \cup {{}}

PyFloat(s) == [t |-> "float", s |-> s]

PictureJson == PyDict([medium |-> PyStr(<<"m.jpg">>), large |-> PyStr(<<"l.jpg">>)])

NodeJson == PyDict([id |-> PyInt(5), title |-> PyStr(<<"Trigun">>), main_picture |-> PictureJson])

IsoJson == PyStr(<<"2020", "-", "01", "-", "15T00:30:00+00:00">>)

FullAnime ==
    [ id |-> PyInt(1),
      title |-> PyStr(<<"Cowboy Bebop">>),
      main_picture |-> PictureJson,
      alternative_titles |->
          PyDict([synonyms |-> PyList(<<PyStr(<<"Bebop">>)>>), en |-> PyStr(<<"Cowboy Bebop">>),
                  ja |-> PyStr(<<"kaubooi bibappu">>)]),
      start_date |-> PyStr(<<"1999", "-", "06", "-", "15">>),
      end_date |-> PyStr(<<"1999", "-", "12">>),
      synopsis |-> PyStr(<<"Crime is timeless.">>),
      mean |-> PyFloat("8.75"),
      rank |-> PyInt(46),
      popularity |-> PyInt(43),
      num_list_users |-> PyInt(1800),
      num_scoring_users |-> PyInt(900),
      nsfw |-> PyStr(<<"white">>),
      created_at |-> IsoJson,
      updated_at |-> IsoJson,
      media_type |-> PyStr(<<"tv">>),
      status |-> PyStr(<<"finished_airing">>),
      genres |-> PyList(<<PyDict([id |-> PyInt(1), name |-> PyStr(<<"Action">>)])>>),
      num_episodes |-> PyInt(26),
      start_season |-> PyDict([year |-> PyInt(1999), season |-> PyStr(<<"spring">>)]),
      broadcast |-> PyDict([day_of_the_week |-> PyStr(<<"saturday">>),
                            start_time |-> PyStr(<<"01:00">>)]),
      source |-> PyStr(<<"original">>),
      average_episode_duration |-> PyInt(1440),
      rating |-> PyStr(<<"r">>),
      pictures |-> PyList(<<PictureJson>>),
      background |-> PyStr(<<>>),
      related_anime |->
          PyList(<<PyDict([node |-> NodeJson, relation_type |-> PyStr(<<"side_story">>),
                           relation_type_formatted |-> PyStr(<<"Side story">>)])>>),
      related_manga |-> PyList(<<>>),
      recommendations |-> PyList(<<PyDict([node |-> NodeJson, num_recommendations |-> PyInt(3)])>>),
      studios |-> PyList(<<PyDict([id |-> PyInt(14), name |-> PyStr(<<"Sunrise">>)])>>),
      statistics |->
          PyDict([status |-> PyDict([watching |-> PyStr(<<"10">>), completed |-> PyStr(<<"20">>),
                                     on_hold |-> PyStr(<<"3">>), dropped |-> PyStr(<<"4">>),
                                     plan_to_watch |-> PyStr(<<"5">>)]),
                  num_list_users |-> PyInt(42)]) ]

AnimePayloads == {PyDict(Restrict(FullAnime, K)) : K \in NearSubsets(DOMAIN FullAnime)}

\* the anime nodes of the list payloads
SomeAnime ==
    { PyDict(EmptyMap),
      PyDict(Restrict(FullAnime, {"id", "title"})),
      PyDict(FullAnime) }

FullElement(a) == [node |-> a, ranking |-> PyDict([rank |-> PyInt(1)])]

\* the elements of a list payload: a node and a ranking, either may be missing
PayloadElements(keys) ==
    {PyDict(Restrict(FullElement(a), K)) : a \in SomeAnime, K \in SUBSET keys}

\* {"data": [...], "paging": {...}} with zero to two elements, or without "data"
ListPayloads(elems) ==
    {PyDict(EmptyMap), PyDict([paging |-> PyDict(EmptyMap)]), PyDict([data |-> PyList(<<>>)])}
        \cup {PyDict([data |-> PyList(<<e>>)]) : e \in elems}
        \cup {PyDict([data |-> PyList(<<e, f>>)]) : e, f \in elems}

AnimeResultsPayloads == ListPayloads(PayloadElements({"node"}))

AnimeRankingPayloads == ListPayloads(PayloadElements({"node", "ranking"}))

FullListStatus ==
    [ status |-> PyStr(<<"completed">>),
      score |-> PyInt(8),
      num_episodes_watched |-> PyInt(26),
      is_rewatching |-> PyBool(FALSE),
      updated_at |-> IsoJson,
      start_date |-> PyStr(<<"2020", "-", "01", "-", "01">>),
      finish_date |-> PyStr(<<"2020", "-", "06">>) ]

UserAnimeListPayloads ==
    UNION { { PyDict(Restrict([node |-> a, list_status |-> PyDict(Restrict(FullListStatus, S))], K))
              : a \in SomeAnime, K \in SUBSET {"node", "list_status"} }
            : S \in SUBSET DOMAIN FullListStatus }

FullAnimeListUpdate ==
    [ status |-> PyStr(<<"watching">>),
      score |-> PyInt(8),
      num_episodes_watched |-> PyInt(3),
      is_rewatching |-> PyBool(FALSE),
      priority |-> PyInt(1),
      num_times_rewatched |-> PyInt(0),
      rewatch_value |-> PyInt(2),
      tags |-> PyList(<<PyStr(<<"space">>)>>),
      comments |-> PyStr(<<>>),
      updated_at |-> IsoJson ]

AnimeListUpdatePayloads ==
    {PyDict(Restrict(FullAnimeListUpdate, K)) : K \in SUBSET DOMAIN FullAnimeListUpdate}

FullMangaListUpdate ==
    [ status |-> PyStr(<<"reading">>),
      score |-> PyInt(8),
      num_volumes_read |-> PyInt(1),
      num_chapters_read |-> PyInt(12),
      is_rereading |-> PyBool(FALSE),
      priority |-> PyInt(0),
      num_times_reread |-> PyInt(0),
      reread_value |-> PyInt(1),
      tags |-> PyList(<<>>),
      comments |-> PyStr(<<>>),
      updated_at |-> IsoJson ]

MangaListUpdatePayloads ==
    {PyDict(Restrict(FullMangaListUpdate, K)) : K \in SUBSET DOMAIN FullMangaListUpdate}

FullManga ==
    [ id |-> PyInt(2),
      title |-> PyStr(<<"Berserk">>),
      main_picture |-> PictureJson,
      alternative_titles |->
          PyDict([synonyms |-> PyList(<<>>), en |-> PyStr(<<"Berserk">>),
                  ja |-> PyStr(<<"beruseruku">>)]),
      start_date |-> PyStr(<<"1999", "-", "06", "-", "15">>),
      end_date |-> PyStr(<<"2021">>),
      synopsis |-> PyStr(<<"Guts, a former mercenary.">>),
      mean |-> PyFloat("9.47"),
      rank |-> PyInt(1),
      popularity |-> PyInt(1),
      num_list_users |-> PyInt(600),
      num_scoring_users |-> PyInt(300),
      nsfw |-> PyStr(<<"gray">>),
      created_at |-> IsoJson,
      updated_at |-> IsoJson,
      media_type |-> PyStr(<<"manga">>),
      status |-> PyStr(<<"currently_publishing">>),
      genres |-> PyList(<<PyDict([id |-> PyInt(1), name |-> PyStr(<<"Action">>)])>>),
      num_volumes |-> PyInt(0),
      num_chapters |-> PyInt(0),
      authors |->
          PyList(<<PyDict([node |-> PyDict([id |-> PyInt(1868), first_name |-> PyStr(<<"Kentarou">>),
                                            last_name |-> PyStr(<<"Miura">>)]),
                           role |-> PyStr(<<"Story & Art">>)])>>),
      pictures |-> PyList(<<PictureJson>>),
      background |-> PyStr(<<"Won the Tezuka prize.">>),
      related_anime |-> PyList(<<>>),
      related_manga |->
          PyList(<<PyDict([node |-> NodeJson, relation_type |-> PyStr(<<"spin_off">>),
                           relation_type_formatted |-> PyStr(<<"Spin-off">>)])>>),
      recommendations |-> PyList(<<PyDict([node |-> NodeJson, num_recommendations |-> PyInt(9)])>>),
      serialization |->
          PyList(<<PyDict([node |-> PyDict([id |-> PyInt(2), name |-> PyStr(<<"Young Animal">>)])])>>) ]

MangaPayloads == {PyDict(Restrict(FullManga, K)) : K \in NearSubsets(DOMAIN FullManga)}

SomeManga ==
    { PyDict(EmptyMap),
      PyDict(Restrict(FullManga, {"id", "title"})),
      PyDict(FullManga) }

\* the elements of a manga list payload
MangaElements(keys) ==
    {PyDict(Restrict(FullElement(m), K)) : m \in SomeManga, K \in SUBSET keys}

MangaResultsPayloads == ListPayloads(MangaElements({"node"}))

MangaRankingPayloads == ListPayloads(MangaElements({"node", "ranking"}))

FullMangaListStatus ==
    [ status |-> PyStr(<<"plan_to_read">>),
      score |-> PyInt(0),
      num_volumes_read |-> PyInt(0),
      num_chapters_read |-> PyInt(0),
      is_rereading |-> PyBool(FALSE),
      updated_at |-> IsoJson,
      start_date |-> PyStr(<<"2021", "-", "12">>),
      finish_date |-> PyStr(<<>>) ]

UserMangaListPayloads ==
    UNION { { PyDict(Restrict([node |-> m, list_status |-> PyDict(Restrict(FullMangaListStatus, S))], K))
              : m \in SomeManga, K \in SUBSET {"node", "list_status"} }
            : S \in SUBSET DOMAIN FullMangaListStatus }

(***************************************************************************)
(* Payloads in which one vocabulary-typed field holds a value that is no   *)
(* wire representation of its enum class.  A field is named by its path.   *)
(***************************************************************************)
\* the JSON value with the value at the path replaced
RECURSIVE SetAt(_, _, _)
SetAt(json, path, v) ==
    IF path = <<>> THEN v
    ELSE PyDict([json.d EXCEPT ![Head(path)] = SetAt(json.d[Head(path)], Tail(path), v)])

\* the attribute of a mapped record at the path
RECURSIVE OutAt(_, _)
OutAt(out, path) == IF path = <<>> THEN out ELSE OutAt(out.a[Head(path)], Tail(path))

UnknownStr == PyStr(<<"not_a_symbol">>)

UnknownInt == PyInt(7)

FullUserAnimeList == [node |-> PyDict(FullAnime), list_status |-> PyDict(FullListStatus)]

FullUserMangaList == [node |-> PyDict(FullManga), list_status |-> PyDict(FullMangaListStatus)]

\* entry point |-> the vocabulary-typed fields of its payload, each with an unknown value
VocabularyFields ==
    [ deserialize_anime |->
          { <<<<"status">>, UnknownStr>>, <<<<"nsfw">>, UnknownStr>>,
            <<<<"media_type">>, UnknownStr>>, <<<<"start_season", "season">>, UnknownStr>> },
      deserialize_manga |->
          { <<<<"status">>, UnknownStr>>, <<<<"nsfw">>, UnknownStr>>,
            <<<<"media_type">>, UnknownStr>> },
      deserialize_user_anime_list |-> { <<<<"list_status", "status">>, UnknownStr>> },
      deserialize_user_manga_list |-> { <<<<"list_status", "status">>, UnknownStr>> },
      deserialize_anime_list_update |->
          { <<<<"status">>, UnknownStr>>, <<<<"priority">>, UnknownInt>>,
            <<<<"rewatch_value">>, UnknownInt>> },
      deserialize_manga_list_update |->
          { <<<<"status">>, UnknownStr>>, <<<<"priority">>, UnknownInt>>,
            <<<<"reread_value">>, UnknownInt>> } ]

FullPayload ==
    [ deserialize_anime             |-> PyDict(FullAnime),
      deserialize_manga             |-> PyDict(FullManga),
      deserialize_user_anime_list   |-> PyDict(FullUserAnimeList),
      deserialize_user_manga_list   |-> PyDict(FullUserMangaList),
      deserialize_anime_list_update |-> PyDict(FullAnimeListUpdate),
      deserialize_manga_list_update |-> PyDict(FullMangaListUpdate) ]

DriftPayload(e, field) == SetAt(FullPayload[e], field[1], field[2])

\* the complete media payload with a null media_type
NullMediaType(e) == SetAt(FullPayload[e], <<"media_type">>, PyNone)

DriftPayloads(e) ==
    IF e \in DOMAIN VocabularyFields
    THEN {DriftPayload(e, field) : field \in VocabularyFields[e]}
    ELSE {}

(***************************************************************************)
(* Payloads of the field-copy policy, of a minimal media item, of empty    *)
(* collections, of ranked elements, and the inputs of the date parser.     *)
(***************************************************************************)
\* the data _deserialize_main_picture is given: deserialize_anime passes
\* data.get("main_picture", {}), which is {} for a payload without the key
MainPicturePayloads ==
    { PyDict(EmptyMap),
      PyNone,
      PyDict([medium |-> PyStr(<<"m.jpg">>)]),
      PyDict([medium |-> PyNone, large |-> PyStr(<<"l.jpg">>)]),
      PictureJson }

\* models/anime.py: the fields of Anime declared without a default
RequiredAnimeFields ==
    {"id", "title", "main_picture", "alternative_titles", "start_date", "synopsis",
     "popularity", "nsfw", "created_at", "updated_at", "media_type", "status", "genres",
     "source", "rating"}

MinimalAnime == PyDict(Restrict(FullAnime, RequiredAnimeFields))

\* the collection-typed fields of the media payloads
CollectionFields ==
    [ deserialize_anime |-> {"genres", "studios", "pictures", "related_anime", "recommendations"},
      deserialize_manga |-> {"genres", "pictures", "authors", "related_manga",
                             "recommendations", "serialization"} ]

\* the complete payload with one collection present and empty
EmptyCollectionPayloads(e) ==
    {SetAt(FullPayload[e], <<f>>, EmptyList) : f \in CollectionFields[e]}

Ranks == {1, 2}

RankedElements(nodes) ==
    {PyDict([node |-> a, ranking |-> PyDict([rank |-> PyInt(r)])]) : a \in nodes, r \in Ranks}

\* None, the empty string, one well-formed string per precision, and strings
\* that strptime rejects
DateInputs ==
    { PyNone,
      PyStr(<<>>),
      PyStr(<<"2020">>),
      PyStr(<<"2020", "-", "06">>),
      PyStr(<<"2020", "-", "06", "-", "15">>),
      PyStr(<<"20xx">>),
      PyStr(<<"2020", "-", "13">>),
      PyStr(<<"2020", "-", "06", "-", "15", "-", "01">>) }

(***************************************************************************)
(* Raw lists for the collection sub-converters.                            *)
(***************************************************************************)
\* the lists of at most two elements of S
ShortLists(S) == {<<>>} \cup {<<a>> : a \in S} \cup {<<a, b>> : a, b \in S}

GenreElements ==
    { PyDict([id |-> PyInt(1), name |-> PyStr(<<"Action">>)]),
      PyDict([id |-> PyInt(2)]),
      EmptyDict }

PictureElements ==
    { PictureJson, PyDict([medium |-> PyStr(<<"m2.jpg">>)]), EmptyDict }

\* the references to another media item: complete, without main_picture,
\* without node, with a null node, with a null main_picture
ReferenceNodes ==
    { [node |-> NodeJson],
      [node |-> PyDict([id |-> PyInt(6), title |-> PyStr(<<"Gungrave">>)])],
      EmptyMap,
      [node |-> PyNone],
      [node |-> PyDict([id |-> PyInt(7), title |-> PyStr(<<"Monster">>),
                        main_picture |-> PyNone])] }

RelatedElements ==
    {PyDict(n @@ [relation_type |-> PyStr(<<"sequel">>),
                  relation_type_formatted |-> PyStr(<<"Sequel">>)]) : n \in ReferenceNodes}

RecommendationElements ==
    {PyDict(n @@ [num_recommendations |-> PyInt(4)]) : n \in ReferenceNodes}

AuthorElements ==
    { PyDict([node |-> PyDict([id |-> PyInt(1), first_name |-> PyStr(<<"Naoki">>),
                               last_name |-> PyStr(<<"Urasawa">>)]),
              role |-> PyStr(<<"Story & Art">>)]),
      PyDict([role |-> PyStr(<<"Art">>)]),
      EmptyDict }

SerializationElements ==
    { PyDict([node |-> PyDict([id |-> PyInt(3), name |-> PyStr(<<"Big Comic">>)])]),
      PyDict([node |-> PyDict([id |-> PyInt(4)])]),
      EmptyDict }

SubBoardElements ==
    { PyDict([id |-> PyInt(2), title |-> PyStr(<<"Anime DB">>)]),
      PyDict([id |-> PyInt(5)]),
      EmptyDict }

PostElements ==
    { PyDict([id |-> PyInt(11), number |-> PyInt(1), created_at |-> IsoJson,
              created_by |-> PyDict([id |-> PyInt(1), name |-> PyStr(<<"bob">>)]),
              body |-> PyStr(<<"first">>)]),
      PyDict([id |-> PyInt(12), number |-> PyInt(2)]),
      EmptyDict }

\* the entry point of each collection sub-converter |-> the elements of its raw list
CollectionElements ==
    [ _deserialize_genres              |-> GenreElements,
      _deserialize_studios             |-> GenreElements,
      _deserialize_pictures            |-> PictureElements,
      _deserialize_related_material    |-> RelatedElements,
      _deserialize_recommendations     |-> RecommendationElements,
      _deserialize_authors             |-> AuthorElements,
      _deserialize_manga_serialization |-> SerializationElements,
      _deserialize_board               |-> SubBoardElements,
      deserialize_forum_topic_details  |-> PostElements ]

\* the data an entry point is given for the raw list l: the sub-boards come
\* inside their board, the posts inside their topic
WithList(e, l) ==
    CASE e = "_deserialize_board" ->
             PyDict([id |-> PyInt(1), title |-> PyStr(<<"Anime">>), subboards |-> PyList(l)])
      [] e = "deserialize_forum_topic_details" ->
             PyDict([title |-> PyStr(<<"New anime">>), posts |-> PyList(l)])
      [] OTHER -> PyList(l)

CollectionPayloads(e) == {WithList(e, l) : l \in ShortLists(CollectionElements[e])}

Payloads ==
    [e \in DOMAIN CollectionElements |-> CollectionPayloads(e)] @@
    [ deserialize_anime             |-> AnimePayloads \cup DriftPayloads("deserialize_anime")
                                            \cup EmptyCollectionPayloads("deserialize_anime")
                                            \cup {MinimalAnime, NullMediaType("deserialize_anime")},
      deserialize_anime_results     |-> AnimeResultsPayloads,
      deserialize_anime_ranking     |-> AnimeRankingPayloads
                                            \cup ListPayloads(RankedElements(SomeAnime)),
      deserialize_user_anime_list   |-> UserAnimeListPayloads
                                            \cup DriftPayloads("deserialize_user_anime_list"),
      deserialize_anime_list_update |-> AnimeListUpdatePayloads
                                            \cup DriftPayloads("deserialize_anime_list_update"),
      deserialize_manga             |-> MangaPayloads \cup DriftPayloads("deserialize_manga")
                                            \cup EmptyCollectionPayloads("deserialize_manga")
                                            \cup {NullMediaType("deserialize_manga")},
      deserialize_manga_results     |-> MangaResultsPayloads,
      deserialize_manga_ranking     |-> MangaRankingPayloads
                                            \cup ListPayloads(RankedElements(SomeManga)),
      deserialize_user_manga_list   |-> UserMangaListPayloads
                                            \cup DriftPayloads("deserialize_user_manga_list"),
      deserialize_manga_list_update |-> MangaListUpdatePayloads
                                            \cup DriftPayloads("deserialize_manga_list_update"),
      _deserialize_main_picture     |-> MainPicturePayloads,
      _date_from_str                |-> DateInputs ]

InitMapper ==
    /\ InitRoute /\ InitResults /\ InitEnumIdle
    /\ mEntry \in DOMAIN Payloads
    /\ mPayload \in Payloads[mEntry]
    /\ mOut = NotCalled

\* an entry point is applied to the payload, once
Applies(out) ==
    /\ mOut = NotCalled
    /\ mOut' = out
    /\ UNCHANGED <<mEntry, mPayload, routeVars, resultVars, enumVars>>

MapAnime ==
    /\ mEntry = "deserialize_anime"
    /\ Applies(deserialize_anime(mPayload))

MapAnimeResults ==
    /\ mEntry = "deserialize_anime_results"
    /\ Applies(deserialize_anime_results(mPayload))

MapAnimeRanking ==
    /\ mEntry = "deserialize_anime_ranking"
    /\ Applies(deserialize_anime_ranking(mPayload))

MapUserAnimeList ==
    /\ mEntry = "deserialize_user_anime_list"
    /\ Applies(deserialize_user_anime_list(mPayload))

MapAnimeListUpdate ==
    /\ mEntry = "deserialize_anime_list_update"
    /\ Applies(deserialize_anime_list_update(mPayload))

MapManga ==
    /\ mEntry = "deserialize_manga"
    /\ Applies(deserialize_manga(mPayload))

MapMangaResults ==
    /\ mEntry = "deserialize_manga_results"
    /\ Applies(deserialize_manga_results(mPayload))

MapMangaRanking ==
    /\ mEntry = "deserialize_manga_ranking"
    /\ Applies(deserialize_manga_ranking(mPayload))

MapUserMangaList ==
    /\ mEntry = "deserialize_user_manga_list"
    /\ Applies(deserialize_user_manga_list(mPayload))

MapMangaListUpdate ==
    /\ mEntry = "deserialize_manga_list_update"
    /\ Applies(deserialize_manga_list_update(mPayload))

MapMainPicture ==
    /\ mEntry = "_deserialize_main_picture"
    /\ Applies(DeserializeMainPicture(mPayload))

MapDate ==
    /\ mEntry = "_date_from_str"
    /\ Applies(DateFromStr(mPayload))

MapGenres ==
    /\ mEntry = "_deserialize_genres"
    /\ Applies(DeserializeGenres(mPayload))

MapStudios ==
    /\ mEntry = "_deserialize_studios"
    /\ Applies(DeserializeStudios(mPayload))

MapPictures ==
    /\ mEntry = "_deserialize_pictures"
    /\ Applies(DeserializePictures(mPayload))

MapRelatedMaterial ==
    /\ mEntry = "_deserialize_related_material"
    /\ Applies(DeserializeRelatedMaterial(mPayload))

MapRecommendations ==
    /\ mEntry = "_deserialize_recommendations"
    /\ Applies(DeserializeRecommendations(mPayload))

MapAuthors ==
    /\ mEntry = "_deserialize_authors"
    /\ Applies(DeserializeAuthors(mPayload))

MapMangaSerialization ==
    /\ mEntry = "_deserialize_manga_serialization"
    /\ Applies(DeserializeMangaSerialization(mPayload))

MapBoard ==
    /\ mEntry = "_deserialize_board"
    /\ Applies(DeserializeBoard(mPayload))

MapForumTopicDetails ==
    /\ mEntry = "deserialize_forum_topic_details"
    /\ Applies(deserialize_forum_topic_details(mPayload))

NextMapper ==
    \/ MapAnime
    \/ MapAnimeResults
    \/ MapAnimeRanking
    \/ MapUserAnimeList
    \/ MapAnimeListUpdate
    \/ MapManga
    \/ MapMangaResults
    \/ MapMangaRanking
    \/ MapUserMangaList
    \/ MapMangaListUpdate
    \/ MapMainPicture
    \/ MapDate
    \/ MapGenres
    \/ MapStudios
    \/ MapPictures
    \/ MapRelatedMaterial
    \/ MapRecommendations
    \/ MapAuthors
    \/ MapMangaSerialization
    \/ MapBoard
    \/ MapForumTopicDetails

SpecMapper == InitMapper /\ [][NextMapper]_vars

(***************************************************************************)
(* A client: constructed once, then its operations called, and closed.     *)
(***************************************************************************)
InitClient ==
    /\ InitRoute /\ InitEnumIdle /\ InitMapperIdle
    /\ results = <<>>
    /\ resFrom = <<>>
    /\ sent = NothingSent
    /\ raised = PyNone
    /\ fetched = NothingFetched
    /\ http = NotConstructed
    /\ called = NoCall

\* a credential argument: not given, empty, given
Credentials == {PyNone, PyStr(<<>>), PyStr(<<"abc">>)}

\* what the API answers a client's request with: the bodies, or an error
Answers(bodies) ==
    {Response(200, b) : b \in bodies}
        \cup {Response(404, PyDict([error |-> PyStr(<<"not_found">>)]))}

\* the keyword arguments of get_forum_topics left at their defaults
ForumDefaults ==
    [query |-> PyNone, board_id |-> PyNone, subboard_id |-> PyNone,
     limit |-> PyInt(10), offset |-> PyInt(0),
     topic_user_name |-> PyNone, username |-> PyNone]

\* the calls of get_forum_topics: no argument, one argument, an empty query,
\* the board 0, and two arguments
ForumCalls ==
    { ForumDefaults,
      [ForumDefaults EXCEPT !.query = PyStr(<<"naruto">>)],
      [ForumDefaults EXCEPT !.query = PyStr(<<>>)],
      [ForumDefaults EXCEPT !.board_id = PyInt(0)],
      [ForumDefaults EXCEPT !.subboard_id = PyInt(2), !.limit = PyInt(5)],
      [ForumDefaults EXCEPT !.username = PyStr(<<"bob">>), !.board_id = PyInt(3)] }

\* the JSON bodies the API answers a topic search with
ForumBodies ==
    { PyDict([data |-> PyList(<<
          PyDict([id |-> PyInt(9), title |-> PyStr(<<"New anime">>),
                  created_at |-> IsoJson, number_of_posts |-> PyInt(4),
                  created_by |-> PyDict([id |-> PyInt(1), name |-> PyStr(<<"bob">>)])]),
          PyDict([id |-> PyInt(8), title |-> PyStr(<<"Old anime">>)]) >>)]) }

\* the limit and offset arguments of the paged operations: the defaults, a
\* limit and an offset beyond the range on either side
PageArgs ==
    { [limit |-> 10, offset |-> 0],
      [limit |-> 500, offset |-> -5],
      [limit |-> 0, offset |-> 20] }

\* the JSON body the API answers a user's anime list with
AnimeListBodies ==
    { PyDict([data |-> PyList(<<
          PyDict([node |-> PyDict([id |-> PyInt(1), title |-> PyStr(<<"Cowboy Bebop">>)]),
                  list_status |-> PyDict([status |-> PyStr(<<"watching">>),
                                          score |-> PyInt(8)])]) >>)]) }

\* the keyword arguments of update_anime_list left at their defaults
AnimeUpdateDefaults ==
    [status |-> PyNone, is_rewatching |-> PyNone, score |-> PyNone,
     num_watched_episodes |-> PyNone, priority |-> PyNone,
     num_times_rewatched |-> PyNone, rewatch_value |-> PyNone,
     tags |-> PyNone, comments |-> PyNone]

\* the calls of update_anime_list: progress, a reset to zero, a score above
\* the range with a priority, a score below the range with the lowest
\* priority and rewatch value
AnimeUpdateCalls ==
    { [AnimeUpdateDefaults EXCEPT !.status = Member("AnimeWatchStatus", "Watching"),
                                  !.score = PyInt(8), !.num_watched_episodes = PyInt(3)],
      [AnimeUpdateDefaults EXCEPT !.score = PyInt(0), !.is_rewatching = PyBool(FALSE),
                                  !.num_watched_episodes = PyInt(0)],
      [AnimeUpdateDefaults EXCEPT !.score = PyInt(15),
                                  !.priority = Member("ListPriority", "High"),
                                  !.tags = PyStr(<<"space">>)],
      [AnimeUpdateDefaults EXCEPT !.score = PyInt(-2),
                                  !.priority = Member("ListPriority", "Low"),
                                  !.rewatch_value = Member("AnimeRewatchValue", "Empty")] }

MangaUpdateDefaults ==
    [status |-> PyNone, is_rereading |-> PyNone, score |-> PyNone,
     num_volumes_read |-> PyNone, num_chapters_read |-> PyNone, priority |-> PyNone,
     num_times_reread |-> PyNone, reread_value |-> PyNone,
     tags |-> PyNone, comments |-> PyNone]

MangaUpdateCalls ==
    { [MangaUpdateDefaults EXCEPT !.status = Member("MangaReadStatus", "Reading"),
                                  !.score = PyInt(10), !.num_chapters_read = PyInt(12)],
      [MangaUpdateDefaults EXCEPT !.is_rereading = PyBool(TRUE),
                                  !.num_volumes_read = PyInt(0),
                                  !.reread_value = Member("MangaRereadValue", "High")],
      [MangaUpdateDefaults EXCEPT !.score = PyInt(11), !.comments = PyStr(<<"good">>)] }

clientOther == <<builders, genArgs, chain, ret, lastOp, enumVars, mapperVars>>

CallNewHttpService ==
    /\ \E client_id, access_token \in Credentials : NewHttpService(client_id, access_token)
    /\ UNCHANGED clientOther

CallClose ==
    /\ Close
    /\ UNCHANGED clientOther

CallGetForumTopics ==
    /\ IsClient(http)
    /\ \E kw \in ForumCalls, raw \in Answers(ForumBodies) : GetForumTopics(kw, raw)
    /\ UNCHANGED clientOther

CallClientSearchAnime ==
    /\ IsClient(http)
    /\ \E page \in PageArgs, raw \in Answers({PyDict(EmptyMap)}) :
           SearchAnime(PyStr(<<"bebop">>), page.limit, page.offset, raw)
    /\ UNCHANGED clientOther

CallSearchManga ==
    /\ IsClient(http)
    /\ \E page \in PageArgs, raw \in Answers({PyDict(EmptyMap)}) :
           SearchManga(PyStr(<<"monster">>), page.limit, page.offset, raw)
    /\ UNCHANGED clientOther

CallGetAnimeList ==
    /\ IsUserClient(http)
    /\ \E page \in PageArgs, raw \in Answers(AnimeListBodies),
          status \in {PyNone, Member("AnimeWatchStatus", "Completed")} :
           GetAnimeList(PyStr(<<"bob">>), status, PyNone, page.limit, page.offset, raw)
    /\ UNCHANGED clientOther

CallUpdateAnimeList ==
    /\ IsUserClient(http)
    /\ \E kw \in AnimeUpdateCalls, raw \in Answers({PyDict(FullAnimeListUpdate)}) :
           UpdateAnimeList(PyInt(1), kw, raw)
    /\ UNCHANGED clientOther

CallUpdateMangaList ==
    /\ IsUserClient(http)
    /\ \E kw \in MangaUpdateCalls, raw \in Answers({PyDict(FullMangaListUpdate)}) :
           UpdateMangaList(PyInt(2), kw, raw)
    /\ UNCHANGED clientOther

NextClient ==
    \/ CallNewHttpService
    \/ CallClose
    \/ CallGetForumTopics
    \/ CallClientSearchAnime
    \/ CallSearchManga
    \/ CallGetAnimeList
    \/ CallUpdateAnimeList
    \/ CallUpdateMangaList

SpecClient == InitClient /\ [][NextClient]_vars

(***************************************************************************)
(* What the callers of the route layer expect.                             *)
(***************************************************************************)
\* the template an endpoint was constructed with
Template(r) == Endpoints[r].uri

\* template with its k-th placeholder, counted from `k`, replaced by the string
\* form of args[k], scanning the template itself left to right from position i;
\* placeholders beyond the last argument stay as they are
RECURSIVE ExpectedFrom(_, _, _, _)
ExpectedFrom(template, args, i, k) ==
    IF i > Len(template) THEN <<>>
    ELSE IF IsPlaceholderAt(template, i) /\ k <= Len(args)
         THEN Str(args[k]) \o ExpectedFrom(template, args, i + 2, k + 1)
         ELSE <<template[i]>> \o ExpectedFrom(template, args, i + 1, k)

ExpectedUri(template, args) == ExpectedFrom(template, args, 1, 1)

NumPlaceholders(s) == Cardinality(PlaceholderPositions(s))

\* no argument's string form holds the placeholder text itself
PlainArgs(args) == \A k \in 1..Len(args) : PlaceholderPositions(Str(args[k])) = {}

\* C1: every builder, however the generate_route calls on its Route interleave,
\* shows the Route's original template with its own call's arguments
\* substituted: no call is affected by an earlier one or affects a builder
\* returned earlier.
C1_IndependentBuilders ==
    \A i \in 1..Len(builders) :
        PlainArgs(genArgs[i]) =>
            BuilderUri(i) = ExpectedUri(Template(builders[i].route), genArgs[i])

\* C2: a Route is immutable: whatever calls were made, every Route still holds
\* the method and the uri template it was constructed with.
C2_RouteImmutable == routes = Endpoints

\* C3: generate_route with exactly as many arguments as the template has
\* placeholders returns a builder whose uri has no placeholder left and is the
\* template with the i-th placeholder replaced by the i-th argument.
C3_ExactArity ==
    (lastOp.op = "generate_route"
        /\ PlainArgs(genArgs[ret])
        /\ Len(genArgs[ret]) = NumPlaceholders(Template(builders[ret].route)))
    => /\ PlaceholderPositions(BuilderUri(ret)) = {}
       /\ BuilderUri(ret) = ExpectedUri(Template(builders[ret].route), genArgs[ret])

\* C4: generate_route with K arguments on a template of N > K placeholders
\* returns a builder whose uri has the first K placeholders substituted in
\* order and the other N - K left as the literal "()".
C4_FewerArgs ==
    (lastOp.op = "generate_route"
        /\ PlainArgs(genArgs[ret])
        /\ Len(genArgs[ret]) < NumPlaceholders(Template(builders[ret].route)))
    => /\ NumPlaceholders(BuilderUri(ret))
            = NumPlaceholders(Template(builders[ret].route)) - Len(genArgs[ret])
       /\ BuilderUri(ret) = ExpectedUri(Template(builders[ret].route), genArgs[ret])
\* the keys supplied by the mappings of a chain
ChainKeys(c) == UNION {DOMAIN c[j].d : j \in {j \in 1..Len(c) : c[j].t = "dict"}}

\* the calls of a chain that supplied key k
Suppliers(c, k) == {j \in 1..Len(c) : c[j].t = "dict" /\ k \in DOMAIN c[j].d}

\* the value the latest call of the chain supplied for key k
LatestValue(c, k) ==
    LET j == CHOOSE j \in Suppliers(c, k) : \A h \in Suppliers(c, k) : h <= j
    IN  c[j].d[k]

\* C5: after any chain of with_params calls the accumulated query parameters
\* hold exactly the keys supplied, each with the value of the latest call that
\* supplied it (None and the empty mapping supply nothing), and every
\* with_params call returns the builder it was called on.
C5_ParamsMerge ==
    /\ \A i \in 1..Len(builders) :
          /\ DOMAIN builders[i]._params = ChainKeys(chain[i])
          /\ \A k \in ChainKeys(chain[i]) :
                builders[i]._params[k] = LatestValue(chain[i], k)
    /\ lastOp.op = "with_params" => ret = lastOp.on

\* two with_params calls with a common key and different values were chained
C5_Witness ==
    /\ lastOp.op = "with_params"
    /\ Len(chain[1]) = 2
    /\ chain[1][1] = PyDict([limit |-> 10, offset |-> 10])
    /\ chain[1][2] = PyDict([limit |-> 100])
    /\ builders[1]._params = [limit |-> 100, offset |-> 10]

\* C6: with_params leaves the body data and the uri as they are, with_data
\* leaves the query parameters and the uri as they are, and from every state of
\* a builder the two calls give the same builder in either order.
C6_Disjoint ==
    /\ [](\A i \in 1..Len(builders) : \A p \in ParamInputs, d \in DataInputs :
             BuilderWithData(BuilderWithParams(builders[i], p), d)
                 = BuilderWithParams(BuilderWithData(builders[i], d), p))
    /\ [][/\ lastOp'.op = "with_params" =>
                \A i \in 1..Len(builders) :
                    /\ builders'[i]._data = builders[i]._data
                    /\ BuilderUri(i)' = BuilderUri(i)
          /\ lastOp'.op = "with_data" =>
                \A i \in 1..Len(builders) :
                    /\ builders'[i]._params = builders[i]._params
                    /\ BuilderUri(i)' = BuilderUri(i)]_vars

\* a builder on which both calls acted and both accumulators are filled
C6_Witness ==
    /\ lastOp.op = "with_data"
    /\ builders[1]._params = [limit |-> 10]
    /\ builders[1]._data = [score |-> 7]

(***************************************************************************)
(* What the callers of a Result expect.                                    *)
(***************************************************************************)
\* C7: a Result built by Success(v) has is_success true, is_error false,
\* value = v and error = None; a Result built by Error(e) has is_success
\* false, is_error true, error = e and value = None; reading value or error
\* never raises, on either variant
C7_Variants ==
    \A i \in 1..Len(results) :
        LET r == results[i]
            f == resFrom[i]
        IN  /\ ~IsRaise(value(r)) /\ ~IsRaise(error(r))
            /\ f.by = "Success" =>
                   /\ is_success(r) /\ ~is_error(r)
                   /\ value(r) = f.arg /\ error(r) = PyNone
            /\ f.by = "Error" =>
                   /\ ~is_success(r) /\ is_error(r)
                   /\ error(r) = f.arg /\ value(r) = PyNone

C7_Witness ==
    \E i, j \in 1..Len(results) :
        /\ resFrom[i].by = "Success" /\ value(results[i]) = PyInt(7)
        /\ resFrom[j].by = "Error" /\ error(results[j]) = HttpErrorResponse(401, PyStr(<<"invalid_token">>))
        /\ value(results[j]) = PyNone

\* C8, as stated: every Result reachable from the constructors and the
\* service operations has exactly one of value and error non-None
C8_ExactlyOne ==
    \A i \in 1..Len(results) :
        (value(results[i]) = PyNone) # (error(results[i]) = PyNone)

\* C8, amended: no Result has value and error both non-None; both are None
\* exactly when a caller passed None to the constructor, so every Result a
\* service operation returns, and every Result constructed from a non-None
\* argument, has exactly one of the two non-None
C8_Amended ==
    \A i \in 1..Len(results) :
        LET r == results[i]
            f == resFrom[i]
        IN  /\ ~(value(r) # PyNone /\ error(r) # PyNone)
            /\ (value(r) = PyNone /\ error(r) = PyNone) <=> (~f.service /\ f.arg = PyNone)

C8_Witness ==
    \E i, j \in 1..Len(results) :
        /\ resFrom[i].service /\ is_error(results[i]) /\ error(results[i]) # PyNone
        /\ resFrom[j].by = "Success" /\ resFrom[j].arg = PyNone
        /\ value(results[j]) = PyNone /\ error(results[j]) = PyNone

(***************************************************************************)
(* What the callers of the vocabulary conversion expect.                   *)
(***************************************************************************)
\* the members of cls whose wire representation equals v (Python equality)
Matching(cls, v) == {n \in DOMAIN EnumMembers[cls] : PyEq(EnumMembers[cls][n], v)}

IsMatchingSymbol(out, cls, v) ==
    /\ out.t = "enum"
    /\ out.cls = cls
    /\ Matching(cls, v) = {out.name}

\* C9: for every enum class and wire value, if the value is one of the
\* class's wire representations then from_str and try_from_str both return
\* the matching symbol; otherwise try_from_str returns None without raising
\* and from_str fails with an error
C9_Conversion ==
    /\ enumStrict # NotCalled =>
           IF Matching(enumCls, enumWire) # {}
           THEN IsMatchingSymbol(enumStrict, enumCls, enumWire)
           ELSE IsRaise(enumStrict)
    /\ enumTry # NotCalled =>
           IF Matching(enumCls, enumWire) # {}
           THEN IsMatchingSymbol(enumTry, enumCls, enumWire)
           ELSE enumTry = PyNone

C9_Witness ==
    /\ enumCls = "AnimeStatus"
    /\ enumWire = PyStr(<<"not_a_symbol">>)
    /\ enumStrict = Raise("ValueError")
    /\ enumTry = PyNone

(***************************************************************************)
(* What the callers of the mapper expect.                                  *)
(***************************************************************************)
\* C10: the mapper never raises on missing optional data: every entry
\* point, applied to a payload of the expected container shape with any
\* subset of its fields missing, returns a record
C10_NeverRaises == mOut # NotCalled => ~IsRaise(mOut)

\* the value of key k of the JSON object x is missing or null
Missing(x, k) == k \notin DOMAIN x.d \/ x.d[k] = PyNone

\* an absent vocabulary value: None, or the Unknown member the media type
\* falls back to
IsAbsentSymbol(v) == v = PyNone \/ (v.t = "enum" /\ v.name = "Unknown")

\* C11: an unrecognized wire value in a vocabulary-typed field of a payload
\* never aborts the mapping: the entry point returns the record, and the
\* field is absent in it
C11_UnknownVocabulary ==
    (mOut # NotCalled /\ mPayload \in DriftPayloads(mEntry)) =>
        /\ ~IsRaise(mOut)
        /\ \A field \in VocabularyFields[mEntry] :
               mPayload = DriftPayload(mEntry, field) => IsAbsentSymbol(OutAt(mOut, field[1]))

\* C12: the field-copy policy writes every declared field of the target
\* record, the payload's value when the key is present and non-null and
\* None otherwise; no declared field is left unset, for every payload
\* including an empty or missing one
C12_EveryFieldWritten ==
    (mEntry = "_deserialize_main_picture" /\ mOut # NotCalled) =>
        /\ ~IsRaise(mOut)
        /\ DOMAIN mOut.a = {"medium", "large"}
        /\ \A n \in {"medium", "large"} :
               mOut.a[n] = IF mPayload.t = "dict" /\ n \in DOMAIN mPayload.d
                           THEN mPayload.d[n] ELSE PyNone

\* an absent value of a media item: None, or a record all of whose fields are absent
RECURSIVE IsAbsent(_)
IsAbsent(v) ==
    \/ v = PyNone
    \/ /\ "a" \in DOMAIN v
       /\ \A n \in DOMAIN v.a : IsAbsent(v.a[n])

\* models/anime.py: the fields of Anime declared with a None default
OptionalAnimeFields ==
    {"studios", "end_date", "mean", "rank", "num_list_users", "num_scoring_users",
     "start_season", "broadcast", "pictures", "background", "related_anime",
     "recommendations", "statistics"}

\* C13: mapping a minimal media payload, holding only the required fields,
\* yields a record in which every declared-optional field that the payload
\* lacks is absent (a collection empty), while num_episodes and
\* average_episode_duration are 0
C13_MinimalPayload ==
    (mEntry = "deserialize_anime" /\ mPayload = MinimalAnime /\ mOut # NotCalled) =>
        /\ ~IsRaise(mOut)
        /\ \A n \in OptionalAnimeFields :
               /\ n \in DOMAIN mOut.a
               /\ IsAbsent(mOut.a[n]) \/ mOut.a[n] = PyList(<<>>)
        /\ "num_episodes" \in DOMAIN mOut.a /\ mOut.a.num_episodes = PyInt(0)
        /\ "average_episode_duration" \in DOMAIN mOut.a
        /\ mOut.a.average_episode_duration = PyInt(0)

Separators(s) == Cardinality({i \in DOMAIN s : s[i] = "-"})

\* C15: date-only parsing selects its format from the number of "-"
\* separators: none selects year-only, one year-month, two the full date;
\* it returns None exactly when the input is empty or None, and does not
\* raise then
C15_DateFormat ==
    (mEntry = "_date_from_str" /\ mOut # NotCalled) =>
        /\ (mOut = PyNone) <=> (mPayload = PyNone \/ mPayload = PyStr(<<>>))
        /\ (mPayload.t = "str" /\ mPayload.s # <<>>) =>
               /\ Separators(mPayload.s) = 0 => mOut = Strptime(mPayload.s, "%Y")
               /\ Separators(mPayload.s) = 1 => mOut = Strptime(mPayload.s, "%Y-%m")
               /\ Separators(mPayload.s) = 2 => mOut = Strptime(mPayload.s, "%Y-%m-%d")

\* a year-month string parsed with the year-month format
C15_Witness ==
    /\ mEntry = "_date_from_str"
    /\ mPayload = PyStr(<<"2020", "-", "06">>)
    /\ mOut = DateTime("%Y-%m", <<"2020", "-", "06">>)

\* the elements of the page list of a payload (none without the data key)
PageElements(p) == IF "data" \in DOMAIN p.d THEN p.d.data.l ELSE <<>>

\* the single-item mapper behind an entry point
SingleItem(e, node) ==
    IF e \in {"deserialize_anime_results", "deserialize_anime_ranking"}
    THEN deserialize_anime(node)
    ELSE deserialize_manga(node)

\* C16: the list-wrapping entry points map a page payload {data: [e1..en]}
\* to a sequence of exactly n records in input order, the i-th being the
\* single-item mapping of ei.node; a payload with no data key yields an
\* empty sequence
C16_ListWrapping ==
    (mEntry \in {"deserialize_anime_results", "deserialize_manga_results"} /\ mOut # NotCalled) =>
        /\ ~IsRaise(mOut)
        /\ mOut.t = "list"
        /\ Len(mOut.l) = Len(PageElements(mPayload))
        /\ \A i \in DOMAIN PageElements(mPayload) :
               "node" \in DOMAIN PageElements(mPayload)[i].d =>
                   mOut.l[i] = SingleItem(mEntry, PageElements(mPayload)[i].d.node)

\* the media item of a ranking wrapper
MediaOf(e, wrapper) ==
    IF e = "deserialize_anime_ranking" THEN wrapper.a.anime_data ELSE wrapper.a.manga_data

HasRank(element) ==
    /\ "node" \in DOMAIN element.d
    /\ "ranking" \in DOMAIN element.d
    /\ "rank" \in DOMAIN element.d.ranking.d

\* C17: the ranking entry points map each element {node, ranking: {rank: r}}
\* of the page list to a wrapper whose rank equals r and whose media item
\* equals the single-item mapping of the element's node, in the order of
\* the page list
C17_Ranking ==
    (mEntry \in {"deserialize_anime_ranking", "deserialize_manga_ranking"} /\ mOut # NotCalled) =>
        /\ ~IsRaise(mOut)
        /\ mOut.t = "list"
        /\ Len(mOut.l) = Len(PageElements(mPayload))
        /\ \A i \in DOMAIN PageElements(mPayload) :
               HasRank(PageElements(mPayload)[i]) =>
                   /\ mOut.l[i].a.ranking.a.rank = PageElements(mPayload)[i].d.ranking.d.rank
                   /\ MediaOf(mEntry, mOut.l[i])
                          = SingleItem(mEntry, PageElements(mPayload)[i].d.node)

\* a page of two different items ranked 2 and 1, mapped in that order
C17_Witness ==
    /\ mEntry = "deserialize_manga_ranking"
    /\ mOut # NotCalled
    /\ Len(PageElements(mPayload)) = 2
    /\ PageElements(mPayload)[1] = PyDict([node |-> PyDict(FullManga),
                                           ranking |-> PyDict([rank |-> PyInt(2)])])
    /\ PageElements(mPayload)[2] = PyDict([node |-> PyDict(EmptyMap),
                                           ranking |-> PyDict([rank |-> PyInt(1)])])
    /\ mOut.l[1].a.ranking.a.rank = PyInt(2)
    /\ mOut.l[2].a.ranking.a.rank = PyInt(1)
    /\ mOut.l[1].a.manga_data.a.id = PyInt(2)

\* C18: in every ranking wrapper the ranking entry points produce the rank
\* is present (non-None), also for elements that carry no ranking object or
\* no rank key
C18_RankPresent ==
    (mEntry \in {"deserialize_anime_ranking", "deserialize_manga_ranking"}
         /\ mOut # NotCalled /\ ~IsRaise(mOut)) =>
        \A i \in DOMAIN mOut.l : mOut.l[i].a.ranking.a.rank # PyNone

\* the media entry points |-> the vocabulary of their media type
MediaTypeClass == [deserialize_anime |-> "AnimeType", deserialize_manga |-> "MangaType"]

\* C27: the media_type of every mapped Anime or Manga record is always a
\* vocabulary symbol and never absent: a missing, null or unrecognized
\* media_type wire value maps to the Unknown symbol of the respective
\* category, a recognized one to its symbol
C27_MediaType ==
    (mEntry \in DOMAIN MediaTypeClass /\ mOut # NotCalled /\ ~IsRaise(mOut)) =>
        /\ "media_type" \in DOMAIN mOut.a
        /\ mOut.a.media_type.t = "enum"
        /\ mOut.a.media_type.cls = MediaTypeClass[mEntry]
        /\ IF Missing(mPayload, "media_type")
              \/ Matching(MediaTypeClass[mEntry], mPayload.d.media_type) = {}
           THEN mOut.a.media_type.name = "Unknown"
           ELSE IsMatchingSymbol(mOut.a.media_type, MediaTypeClass[mEntry],
                                 mPayload.d.media_type)

\* an anime with a null media type, and a manga with an unrecognized one
C27_Witness ==
    /\ mEntry \in DOMAIN MediaTypeClass
    /\ mOut # NotCalled
    /\ "media_type" \in DOMAIN mPayload.d
    /\ \/ mEntry = "deserialize_anime" /\ mPayload.d.media_type = PyNone
       \/ mEntry = "deserialize_manga" /\ mPayload.d.media_type = UnknownStr
    /\ mOut.a.media_type = Member(MediaTypeClass[mEntry], "Unknown")
(***************************************************************************)
(* What the callers of the services and of the transport expect.           *)
(***************************************************************************)
\* C19: a resource operation whose transport returned an error response
\* returns a Result with is_error true whose error is that same response,
\* and does not raise; one whose transport returned a success response
\* returns a Success wrapping the mapper's output for the response payload
C19_TransportToResult ==
    fetched.by # "none" =>
        /\ raised = PyNone
        /\ \A i \in 1..Len(results) :
               resFrom[i].service =>
                   LET r == results[i]
                       resp == resFrom[i].arg
                   IN  IF IsHttpError(resp)
                       THEN is_error(r) /\ error(r) = resp
                       ELSE is_success(r) /\ value(r) = Mapped(resFrom[i].by, resp.data)

\* C20: fetch never raises; an exception during the call gives an error
\* response with status 500; a response with a non-2xx status gives an error
\* response; every response with a 2xx status whose body decodes gives a
\* success response carrying the decoded payload
C20_Classification ==
    fetched.by # "none" =>
        LET raw == fetched.raw
            resp == fetched.resp
        IN  /\ ~IsRaise(resp)
            /\ raw.kind = "exception" => resp = HttpErrorResponse(500, raw.msg)
            /\ (raw.kind = "response" /\ raw.body = NotJson) =>
                   (IsHttpError(resp) /\ resp.status = 500)
            /\ (raw.kind = "response" /\ raw.status \notin 200..299) =>
                   (IsHttpError(resp) /\ resp.status \in {raw.status, 500})
            /\ (raw.kind = "response" /\ raw.body # NotJson /\ raw.status \in 200..299) =>
                   (~IsHttpError(resp) /\ resp.status = raw.status /\ resp.data = raw.body)
(***************************************************************************)
(* What the callers of the list-status and list-update mappers expect.     *)
(***************************************************************************)
\* entry point |-> the numeric progress counters of its record
Counters ==
    [ deserialize_user_anime_list   |-> {"score", "num_episodes_watched"},
      deserialize_user_manga_list   |-> {"score", "num_volumes_read", "num_chapters_read"},
      deserialize_anime_list_update |-> {"score", "num_episodes_watched", "num_times_rewatched"},
      deserialize_manga_list_update |-> {"score", "num_volumes_read", "num_chapters_read",
                                         "num_times_reread"} ]

IsUserList(e) == e \in {"deserialize_user_anime_list", "deserialize_user_manga_list"}

\* the list-status or list-update record in the output of an entry point
StatusRecord(e, out) == IF IsUserList(e) THEN out.a.list_status ELSE out

\* the JSON object that record is mapped from
StatusJson(e, p) ==
    IF ~IsUserList(e) THEN p.d
    ELSE IF "list_status" \in DOMAIN p.d THEN p.d.list_status.d ELSE EmptyMap

\* C21: in list-status and list-update mapping the numeric progress
\* counters (num_episodes_watched, num_volumes_read, num_chapters_read,
\* num_times_rewatched / num_times_reread, score) are 0, not None, whenever
\* the payload omits them
C21_CountersDefaultZero ==
    (mEntry \in DOMAIN Counters /\ mOut # NotCalled /\ ~IsRaise(mOut)) =>
        \A n \in Counters[mEntry] :
            n \notin DOMAIN StatusJson(mEntry, mPayload) =>
                /\ n \in DOMAIN StatusRecord(mEntry, mOut).a
                /\ StatusRecord(mEntry, mOut).a[n] = PyInt(0)

VocabularyAttrs == {"status", "priority", "rewatch_value", "reread_value"}

\* C26: list-status and list-update mapping apply vocabulary conversion to
\* the status, priority and rewatch/reread-value fields: in every mapped
\* AnimeListStatus, AnimeListUpdate, MangaListStatus and MangaListUpdate
\* record each of these fields holds a vocabulary symbol (or is absent),
\* never the raw wire string or number
C26_ListVocabulary ==
    (mEntry \in DOMAIN Counters /\ mOut # NotCalled /\ ~IsRaise(mOut)) =>
        \A n \in VocabularyAttrs \cap DOMAIN StatusRecord(mEntry, mOut).a :
            \/ StatusRecord(mEntry, mOut).a[n] = PyNone
            \/ StatusRecord(mEntry, mOut).a[n].t = "enum"
(***************************************************************************)
(* What the callers of a client expect.                                    *)
(***************************************************************************)
\* the selecting arguments of get_forum_topics
ForumSelectors == {"query", "board_id", "subboard_id", "topic_user_name", "username"}

\* C22: get_forum_topics raises ValueError, and issues no request, exactly
\* when none of query, board_id, subboard_id, topic_user_name and username
\* is specified; when at least one of them is specified it issues one
\* request and returns a Result
C22_ForumTopicsArguments ==
    called.op = "get_forum_topics" =>
        IF \A n \in ForumSelectors : called.kw[n] = PyNone
        THEN raised = Raise("ValueError") /\ called.fetches = 0
        ELSE /\ raised = PyNone /\ called.fetches = 1
             /\ Len(results) > 0 /\ resFrom[Len(results)].by = "get_forum_topics"

\* a credential is supplied when it is given and not empty
Supplied(credential) == credential # PyNone /\ credential # PyStr(<<>>)

CredentialHeaders == {"X-MAL-CLIENT-ID", "Authorization"}

\* C23: constructing the HTTP service fails with ValueError when neither a
\* client id nor an access token is supplied (None or an empty string); with
\* at least one supplied, construction succeeds and the request headers hold
\* exactly one credential header, carrying a credential that was supplied
C23_Construction ==
    called.op = "HttpService" =>
        IF ~Supplied(called.kw.client_id) /\ ~Supplied(called.kw.access_token)
        THEN raised = Raise("ValueError") /\ http = NotConstructed
        ELSE /\ raised = PyNone
             /\ http # NotConstructed
             /\ ~http.closed
             /\ \E h \in CredentialHeaders :
                    /\ DOMAIN http._headers.d = {h}
                    /\ h = "X-MAL-CLIENT-ID" =>
                           /\ Supplied(called.kw.client_id)
                           /\ http._headers.d[h] = called.kw.client_id
                    /\ h = "Authorization" =>
                           /\ Supplied(called.kw.access_token)
                           /\ http._headers.d[h]
                                  = PyStr(<<"Bearer ">> \o called.kw.access_token.s)

\* a service constructed with both credentials holds the bearer token only
C23_Witness ==
    /\ called.op = "HttpService"
    /\ Supplied(called.kw.client_id) /\ Supplied(called.kw.access_token)
    /\ raised = PyNone
    /\ DOMAIN http._headers.d = {"Authorization"}

IsClosed(service) == service # NotConstructed /\ service.closed

\* C28: close is idempotent and closed is an absorbing state: close closes
\* the session only when it is open, a second close does nothing and does
\* not raise, the session is never reopened, and every fetch issued after
\* close returns an error response (status 500) instead of raising or
\* performing a request
C28_CloseAbsorbing ==
    /\ [](http # NotConstructed => http.closes = (IF http.closed THEN 1 ELSE 0))
    /\ [](called.op = "close" => (raised = PyNone /\ IsClosed(http)))
    /\ [][IsClosed(http) =>
             /\ http' = http
             /\ results' # results =>
                    /\ raised' = PyNone
                    /\ fetched'.raw = Exception("Session is closed")
                    /\ IsHttpError(fetched'.resp) /\ fetched'.resp.status = 500
                    /\ results' = Append(results, Error(fetched'.resp))]_vars

\* an operation called after close gave an error response, and the client
\* was closed once more
C28_Witness ==
    /\ IsClosed(http)
    /\ http.closes = 1
    /\ called.op = "close"
    /\ fetched.raw = Exception("Session is closed")
    /\ Len(results) > 0
    /\ is_error(results[Len(results)])
    /\ error(results[Len(results)]).status = 500

PagedOperations == {"search_anime", "search_manga", "get_anime_list"}

\* C29: for every paged anime, manga and user-list operation and every
\* integer limit and offset, the limit query parameter sent lies between 1
\* and 100 and the offset sent is never negative (a limit above 100 is sent
\* as 100, a negative offset as 0)
C29_PageBounds ==
    called.op \in PagedOperations =>
        /\ sent.params.limit \in 1..100
        /\ sent.params.offset >= 0
        /\ called.kw.limit.n > 100 => sent.params.limit = 100
        /\ called.kw.offset.n < 0 => sent.params.offset = 0

UpdateOperations == {"update_anime_list", "update_manga_list"}

\* the keyword parameters the caller of an update specified
Specified(kw) == {k \in DOMAIN kw \ {"anime_id", "manga_id"} : kw[k] # PyNone}

\* a score clamped into 0..10
Clamped(score) ==
    IF score.n > 10 THEN PyInt(10) ELSE IF score.n < 0 THEN PyInt(0) ELSE score

\* the value sent for a specified parameter: the caller's value, a
\* vocabulary symbol possibly as its wire value
SentAs(k, v, w) ==
    \/ k = "score" /\ w = Clamped(v)
    \/ k # "score" /\ w = v
    \/ v.t = "enum" /\ w = EnumMembers[v.cls][v.name]

\* C30: update_anime_list and update_manga_list send in the request body
\* exactly the keyword parameters the caller specified (non-None), each
\* with the caller's value, where score is clamped into 0..10; a parameter
\* specified as 0 or False is sent like any other specified value
C30_UpdateBody ==
    called.op \in UpdateOperations =>
        /\ DOMAIN sent.data = Specified(called.kw)
        /\ \A k \in DOMAIN sent.data : SentAs(k, called.kw[k], sent.data[k])
(***************************************************************************)
(* What the callers of the collection sub-converters expect.               *)
(***************************************************************************)
\* the raw list in the data of a collection entry point
RawList(e, data) ==
    CASE e = "_deserialize_board"              -> data.d.subboards.l
      [] e = "deserialize_forum_topic_details" -> data.d.posts.l
      [] OTHER                                 -> data.l

\* the converted list in what the entry point gave
OutList(e, out) ==
    CASE e = "_deserialize_board"              -> out.a.subboards
      [] e = "deserialize_forum_topic_details" -> out.a.posts
      [] OTHER                                 -> out

SubConverter(e, data) ==
    CASE e = "_deserialize_genres"              -> DeserializeGenres(data)
      [] e = "_deserialize_studios"             -> DeserializeStudios(data)
      [] e = "_deserialize_pictures"            -> DeserializePictures(data)
      [] e = "_deserialize_related_material"    -> DeserializeRelatedMaterial(data)
      [] e = "_deserialize_recommendations"     -> DeserializeRecommendations(data)
      [] e = "_deserialize_authors"             -> DeserializeAuthors(data)
      [] e = "_deserialize_manga_serialization" -> DeserializeMangaSerialization(data)
      [] e = "_deserialize_board"               -> DeserializeBoard(data)
      [] e = "deserialize_forum_topic_details"  -> deserialize_forum_topic_details(data)

\* what the sub-converter makes of the one raw element x, alone in its list
AloneOf(e, x) == OutList(e, SubConverter(e, WithList(e, <<x>>)))

\* C24: every collection sub-converter (genres, studios, pictures, related
\* material, recommendations, authors, serialization, sub-boards, posts)
\* returns a sequence of the same length as the raw list, whose i-th
\* element is built only from the i-th raw element, preserving input order
C24_ElementWise ==
    (mEntry \in DOMAIN CollectionElements /\ mOut # NotCalled) =>
        /\ ~IsRaise(mOut)
        /\ OutList(mEntry, mOut).t = "list"
        /\ Len(OutList(mEntry, mOut).l) = Len(RawList(mEntry, mPayload))
        /\ \A i \in DOMAIN RawList(mEntry, mPayload) :
               /\ ~IsRaise(AloneOf(mEntry, RawList(mEntry, mPayload)[i]))
               /\ OutList(mEntry, mOut).l[i] = AloneOf(mEntry, RawList(mEntry, mPayload)[i]).l[1]

ReferenceEntries == {"_deserialize_related_material", "_deserialize_recommendations"}

\* C25: in related-media and recommendation lists an element whose nested
\* node is missing or null maps to a reference node with id, title and
\* picture all absent, one whose nested main_picture is missing or null to a
\* reference node with an absent picture, and the remaining elements of the
\* list are still mapped: the list conversion never fails because of one
\* such element
C25_NestedMissing ==
    (mEntry \in ReferenceEntries /\ mOut # NotCalled) =>
        /\ ~IsRaise(mOut)
        /\ Len(mOut.l) = Len(mPayload.l)
        /\ \A i \in DOMAIN mPayload.l :
               /\ Missing(mPayload.l[i], "node") =>
                      /\ mOut.l[i].a.node.a.id = PyNone
                      /\ mOut.l[i].a.node.a.title = PyNone
                      /\ IsAbsent(mOut.l[i].a.node.a.main_picture)
               /\ (~Missing(mPayload.l[i], "node")
                       /\ Missing(mPayload.l[i].d.node, "main_picture")) =>
                      /\ mOut.l[i].a.node.a.id = mPayload.l[i].d.node.d.id
                      /\ IsAbsent(mOut.l[i].a.node.a.main_picture)
====
